---- MODULE Spec2Model ----
(***************************************************************************)
(* ansible2dd (a2dd): conversion of Ansible tasks, blocks, includes, plays *)
(* and roles into Directord jobs.                                          *)
(*                                                                         *)
(* Python values are modelled as records of one shape                      *)
(*     [t |-> tag, s |-> string, n |-> number, m |-> members]              *)
(* with tag "str", "int", "bool", "none", "dict" or "list".  A dict keeps  *)
(* its insertion order: its members are a sequence of <<key, value>>       *)
(* pairs; a list's members are pairs with the empty key.  Strings are TLA+ *)
(* strings, built and inspected character by character as the Python code  *)
(* does.  A Python exception is the field err of a call's result.          *)
(***************************************************************************)
EXTENDS Integers, Sequences, FiniteSets, TLC

(* ------------------------------------------------------------------ *)
(* Python values                                                      *)
(* ------------------------------------------------------------------ *)
Str(x) ==
    [t |-> "str", s |-> x, n |-> 0, m |-> <<>>]

Num(i) ==
    [t |-> "int", s |-> "", n |-> i, m |-> <<>>]

Bool(b) ==
    [t |-> "bool", s |-> "", n |-> IF b THEN 1 ELSE 0, m |-> <<>>]

None ==
    [t |-> "none", s |-> "", n |-> 0, m |-> <<>>]

Dict(d) ==
    [t |-> "dict", s |-> "", n |-> 0, m |-> d]

List(l) ==
    [t |-> "list", s |-> "", n |-> 0, m |-> [i \in 1..Len(l) |-> <<"", l[i]>>]]

\* the elements of a list value, in order
Elems(v) ==
    [i \in 1..Len(v.m) |-> v.m[i][2]]

\* Python truthiness: bool(v)
Truthy(v) ==
    CASE v.t = "str" -> v.s # ""
      [] v.t = "int" -> v.n # 0
      [] v.t = "bool" -> v.n = 1
      [] v.t = "none" -> FALSE
      [] OTHER -> Len(v.m) > 0

(* ------------------------------------------------------------------ *)
(* Python str methods                                                 *)
(* ------------------------------------------------------------------ *)
\* sub in s
Contains(s, sub) ==
    \E i \in 1..(Len(s) - Len(sub) + 1) : SubSeq(s, i, i + Len(sub) - 1) = sub

\* s.startswith(p)
StartsWith(s, p) ==
    Len(s) >= Len(p) /\ SubSeq(s, 1, Len(p)) = p

\* the first index at or after i where sub occurs in s, 0 when there is none
RECURSIVE Find(_, _, _)
Find(s, sub, i) ==
    IF i + Len(sub) - 1 > Len(s) THEN 0
    ELSE IF SubSeq(s, i, i + Len(sub) - 1) = sub THEN i
    ELSE Find(s, sub, i + 1)

\* s.split(sep): the pieces of s between the occurrences of sep
RECURSIVE Split(_, _)
Split(s, sep) ==
    LET i == Find(s, sep, 1)
    IN  IF i = 0 THEN <<s>>
        ELSE <<SubSeq(s, 1, i - 1)>> \o Split(SubSeq(s, i + Len(sep), Len(s)), sep)

\* s.split(): the whitespace-delimited words of s
SplitWords(s) ==
    SelectSeq(Split(s, " "), LAMBDA w : w # "")

\* sep.join(parts)
RECURSIVE Join(_, _)
Join(sep, parts) ==
    IF Len(parts) = 0 THEN ""
    ELSE IF Len(parts) = 1 THEN parts[1]
    ELSE parts[1] \o sep \o Join(sep, Tail(parts))

\* s.rstrip(c)
RECURSIVE RStrip(_, _)
RStrip(s, c) ==
    IF Len(s) > 0 /\ SubSeq(s, Len(s), Len(s)) = c
    THEN RStrip(SubSeq(s, 1, Len(s) - 1), c)
    ELSE s

\* s.lstrip()
RECURSIVE LStrip(_)
LStrip(s) ==
    IF Len(s) > 0 /\ SubSeq(s, 1, 1) = " " THEN LStrip(SubSeq(s, 2, Len(s))) ELSE s

\* s.replace(old, new)
Replace(s, old, new) ==
    Join(new, Split(s, old))

Digits ==
    <<"0", "1", "2", "3", "4", "5", "6", "7", "8", "9">>

\* the value of a digit character in the given base, -1 when it is none
DigitValue(c, base) ==
    IF \E d \in 1..base : Digits[d] = c
    THEN (CHOOSE d \in 1..base : Digits[d] = c) - 1
    ELSE -1

\* format(n, "d") and format(n, "o") for n >= 0
RECURSIVE FormatBase(_, _)
FormatBase(n, base) ==
    IF n < base THEN Digits[n + 1]
    ELSE FormatBase(n \div base, base) \o Digits[(n % base) + 1]

\* int(s, base) for a string of digits: -1 stands for ValueError
RECURSIVE ParseBase(_, _, _)
ParseBase(s, base, acc) ==
    IF Len(s) = 0 THEN acc
    ELSE LET d == DigitValue(SubSeq(s, 1, 1), base)
         IN  IF d < 0 THEN -1
             ELSE ParseBase(SubSeq(s, 2, Len(s)), base, acc * base + d)

(* ------------------------------------------------------------------ *)
(* Python dict methods, on the sequence of <<key, value>> pairs        *)
(* ------------------------------------------------------------------ *)
\* k in d
Has(d, k) ==
    \E i \in 1..Len(d) : d[i][1] = k

\* d[k], for a key that is there
Get(d, k) ==
    d[CHOOSE i \in 1..Len(d) : d[i][1] = k][2]

\* d.get(k, default)
GetOr(d, k, default) ==
    IF Has(d, k) THEN Get(d, k) ELSE default

\* d.pop(k, None): the dict without the key
Pop(d, k) ==
    SelectSeq(d, LAMBDA p : p[1] # k)

\* d[k] = v: in place for a key that is there, appended otherwise
Put(d, k, v) ==
    IF Has(d, k)
    THEN [i \in 1..Len(d) |-> IF d[i][1] = k THEN <<k, v>> ELSE d[i]]
    ELSE Append(d, <<k, v>>)

\* list(d.keys())
Keys(d) ==
    [i \in 1..Len(d) |-> d[i][1]]

\* x in v for a value v of any type ("" for the result of a TypeError)
PyIn(x, v) ==
    CASE v.t = "dict" -> Has(v.m, x)
      [] v.t = "str" -> Contains(v.s, x)
      [] v.t = "list" -> \E i \in 1..Len(v.m) : v.m[i][2] = Str(x)
      [] OTHER -> FALSE

\* whether `x in v` raises TypeError (argument of type ... is not iterable)
PyInRaises(v) ==
    v.t \in {"int", "bool", "none"}

\* str(v), as an f-string renders a value
RECURSIVE PyStr(_)
PyStr(v) ==
    CASE v.t = "str" -> v.s
      [] v.t = "int" -> FormatBase(v.n, 10)
      [] v.t = "bool" -> IF v.n = 1 THEN "True" ELSE "False"
      [] v.t = "none" -> "None"
      [] v.t = "list" ->
            "[" \o Join(", ", [i \in 1..Len(v.m) |->
                                  "'" \o PyStr(v.m[i][2]) \o "'"]) \o "]"
      [] OTHER ->
            "{" \o Join(", ", [i \in 1..Len(v.m) |->
                                  "'" \o v.m[i][1] \o "': '"
                                  \o PyStr(v.m[i][2]) \o "'"]) \o "}"

(* ------------------------------------------------------------------ *)
(* a2dd.constants and a2dd.utils                                      *)
(* ------------------------------------------------------------------ *)
TASK_ATTRS ==
    {"action", "any_errors_fatal", "args", "async", "become", "become_exe",
     "become_flags", "become_method", "become_user", "changed_when",
     "check_mode", "collections", "connection", "debugger", "delay",
     "delegate_facts", "delegate_to", "diff", "environment", "failed_when",
     "ignore_errors", "ignore_unreachable", "local_action", "loop",
     "loop_control", "module_defaults", "name", "no_log", "notify", "poll",
     "port", "register", "remote_user", "retries", "run_once", "tags",
     "throttle", "timeout", "until", "vars", "when", "with_"}

\* the attributes of a block: those of a task that apply to a group of
\* tasks, and the block's own sections
BLOCK_ATTRS ==
    {"always", "any_errors_fatal", "become", "become_exe", "become_flags",
     "become_method", "become_user", "block", "check_mode", "collections",
     "connection", "debugger", "delegate_facts", "delegate_to", "diff",
     "environment", "ignore_errors", "ignore_unreachable",
     "module_defaults", "name", "no_log", "notify", "port", "remote_user",
     "rescue", "run_once", "tags", "throttle", "timeout", "vars", "when"}

\* the attributes of a play
PLAYBOOK_ATTRS ==
    {"any_errors_fatal", "become", "become_exe", "become_flags",
     "become_method", "become_user", "check_mode", "collections",
     "connection", "debugger", "diff", "environment", "fact_path",
     "force_handlers", "gather_facts", "gather_subset", "gather_timeout",
     "handlers", "hosts", "ignore_errors", "ignore_unreachable",
     "max_fail_percentage", "module_defaults", "name", "no_log", "order",
     "port", "post_tasks", "pre_tasks", "remote_user", "roles", "run_once",
     "serial", "strategy", "tags", "tasks", "throttle", "timeout", "vars",
     "vars_files", "vars_prompt"}

\* a YAML scalar as the dumper writes it
YamlScalar(v) ==
    CASE v.t = "str" -> v.s
      [] v.t = "int" -> FormatBase(v.n, 10)
      [] v.t = "bool" -> IF v.n = 1 THEN "true" ELSE "false"
      [] OTHER -> "null"

\* the block-style lines of a mapping (pairs with a key) or of a list
\* (pairs with the empty key), each ended by a newline: a mapping under
\* a key is indented by two, a list under a key stands at the key's
\* indent, and the first line of a collection that is a list's item
\* follows the item's dash
RECURSIVE YamlLines(_, _)
YamlLines(m, indent) ==
    IF Len(m) = 0 THEN ""
    ELSE LET k == m[1][1]
             v == m[1][2]
             lead == indent \o (IF k = "" THEN "-" ELSE k \o ":")
             this == IF v.t \in {"dict", "list"} /\ Len(v.m) > 0 /\ k = ""
                     THEN lead \o " "
                          \o SubSeq(YamlLines(v.m, indent \o "  "), Len(indent) + 3,
                                    Len(YamlLines(v.m, indent \o "  ")))
                     ELSE IF v.t = "dict" /\ Len(v.m) > 0
                     THEN lead \o "\n" \o YamlLines(v.m, indent \o "  ")
                     ELSE IF v.t = "list" /\ Len(v.m) > 0
                     THEN lead \o "\n" \o YamlLines(v.m, indent)
                     ELSE IF v.t = "dict" THEN lead \o " {}\n"
                     ELSE IF v.t = "list" THEN lead \o " []\n"
                     ELSE lead \o " " \o YamlScalar(v) \o "\n"
         IN  this \o YamlLines(Tail(m), indent)

\* yaml_dump(content): the text of a mapping, in block style
yaml_dump(content) ==
    IF Len(content) = 0 THEN "{}\n" ELSE YamlLines(content, "")

\* the words of a string, where a double-quoted stretch keeps its spaces
\* and loses its quotes
RECURSIVE ShellWords(_, _, _, _)
ShellWords(s, word, quoted, started) ==
    IF Len(s) = 0 THEN (IF started THEN <<word>> ELSE <<>>)
    ELSE LET c == SubSeq(s, 1, 1)
             rest == SubSeq(s, 2, Len(s))
         IN  IF c = "\"" THEN ShellWords(rest, word, ~quoted, TRUE)
             ELSE IF c = " " /\ ~quoted
             THEN (IF started THEN <<word>> ELSE <<>>)
                  \o ShellWords(rest, "", FALSE, FALSE)
             ELSE ShellWords(rest, word \o c, quoted, TRUE)

\* string2dict(string): the mapping of a line of key=value words; a word
\* with no "=" in it has no key and is an error
string2dict(string) ==
    LET words == ShellWords(string, "", FALSE, FALSE)
        eq(w) == Find(w, "=", 1)
    IN  IF \E i \in 1..Len(words) : eq(words[i]) = 0
        THEN [err |-> "ValueError", dict |-> <<>>]
        ELSE [err |-> "",
              dict |-> [i \in 1..Len(words) |->
                          <<SubSeq(words[i], 1, eq(words[i]) - 1),
                            Str(SubSeq(words[i], eq(words[i]) + 1,
                                       Len(words[i])))>>]]

\* get_task_action(task): the action of the task
get_task_action(task) ==
    IF Has(task, "action") \/ Has(task, "local_action")
    THEN LET action == IF Has(task, "action") THEN "action" ELSE "local_action"
             v == Get(task, action)
         IN  IF PyInRaises(v) THEN [err |-> "TypeError", action |-> ""]
             ELSE IF PyIn("module", v)
             THEN (IF v.t = "dict" /\ Get(v.m, "module").t = "str"
                   THEN [err |-> "", action |-> Get(v.m, "module").s]
                   ELSE [err |-> "TypeError", action |-> ""])
             ELSE IF v.t # "str" THEN [err |-> "AttributeError", action |-> ""]
             ELSE IF Len(SplitWords(v.s)) = 0
             THEN [err |-> "IndexError", action |-> ""]
             ELSE [err |-> "", action |-> SplitWords(v.s)[1]]
    ELSE LET keys == {Keys(task)[i] : i \in 1..Len(task)}
             with_items == {k \in keys : StartsWith(k, "with_")}
             action == keys \ (TASK_ATTRS \cup with_items)
         IN  IF Cardinality(action) > 1
             THEN [err |-> "Exception: more than one action", action |-> ""]
             ELSE IF Cardinality(action) = 0
             THEN [err |-> "Exception: no action", action |-> ""]
             ELSE [err |-> "", action |-> CHOOSE a \in action : TRUE]

(* ------------------------------------------------------------------ *)
(* class AnsibleTask: the rules of the modules                        *)
(* A rule takes the task (self.task), the residual attributes          *)
(* (task_args) and the scopes of the task, and returns the exception   *)
(* raised (err), the list of one-key dicts (parsed) and the residue.   *)
(* ------------------------------------------------------------------ *)
\* v[k]: KeyError for a dict without the key, TypeError for any other
\* type subscripted with a string
Sub(v, k) ==
    IF v.t = "dict"
    THEN (IF Has(v.m, k) THEN [err |-> "", val |-> Get(v.m, k)]
          ELSE [err |-> "KeyError", val |-> None])
    ELSE [err |-> "TypeError", val |-> None]

Raise(e) ==
    [err |-> e, parsed |-> <<>>, ctx |-> <<>>]

Return(parsed, ctx) ==
    [err |-> "", parsed |-> parsed, ctx |-> ctx]

\* {kind: payload}
Job(kind, payload) ==
    <<<<kind, Str(payload)>>>>

\* d without the keys of ks
RECURSIVE PopAll(_, _)
PopAll(d, ks) ==
    IF Len(ks) = 0 THEN d ELSE PopAll(Pop(d, ks[1]), Tail(ks))

\* the scopes whose environment a command exports, outermost first
ShellScopesInnermostFirst(play, block, task) ==
    <<Dict(task), block, play>>

ShellScopes(play, block, task) ==
    <<play, block, Dict(task)>>

\* one `export K="V";` line per entry of the environment of each scope
RECURSIVE ExportLines(_)
ExportLines(scopes) ==
    IF Len(scopes) = 0 THEN <<>>
    ELSE LET env == scopes[1]
             here == IF env.t # "none" /\ Has(env.m, "environment")
                     THEN LET e == Get(env.m, "environment").m
                          IN  [i \in 1..Len(e) |->
                                 "export " \o e[i][1] \o "=\""
                                 \o PyStr(e[i][2]) \o "\";"]
                     ELSE <<>>
         IN  here \o ExportLines(Tail(scopes))

\* whether a scope's environment is no mapping (.items() raises)
EnvNotMapping(scopes) ==
    \E i \in 1..Len(scopes) :
        /\ scopes[i].t # "none"
        /\ Has(scopes[i].m, "environment")
        /\ Get(scopes[i].m, "environment").t # "dict"

task_shell(task, task_args, kw) ==
    LET action == IF Has(task, "shell") THEN "shell" ELSE "command"
        raw == Get(task, action)
        args == GetOr(task, "args", Dict(<<>>))
        \* lines 125-129: the command of a mapping-shaped task
        fromArgs == raw.t = "dict" /\ Has(task, "args") /\ ~PyInRaises(args)
                    /\ PyIn("cmd", args)
        run1 == IF fromArgs THEN Sub(args, "cmd") ELSE [err |-> "", val |-> raw]
        run2 == IF raw.t = "dict" /\ run1.err = "" /\ ~PyInRaises(run1.val)
                   /\ PyIn("cmd", run1.val)
                THEN Sub(run1.val, "cmd") ELSE run1
        run == run2.val
        \* lines 132-135: the working directory
        cd == IF PyIn("chdir", args) THEN Sub(args, "chdir")
              ELSE IF PyIn("chdir", raw) THEN Sub(raw, "chdir")
              ELSE [err |-> "", val |-> None]
        hasCd == PyIn("chdir", args) \/ PyIn("chdir", raw)
        scopes == ShellScopes(kw.play, kw.block, task)
        exe == (IF hasCd THEN <<"cd " \o PyStr(cd.val) \o ";">> ELSE <<>>)
               \o ExportLines(scopes) \o <<run.s>>
    IN  IF raw.t = "dict" /\ Has(task, "args") /\ PyInRaises(args)
        THEN Raise("TypeError")
        ELSE IF run1.err # "" THEN Raise(run1.err)
        ELSE IF raw.t = "dict" /\ PyInRaises(run1.val) THEN Raise("TypeError")
        ELSE IF run2.err # "" THEN Raise(run2.err)
        ELSE IF run.t # "str" THEN Raise("ValueError")
        ELSE IF PyInRaises(args) THEN Raise("TypeError")
        ELSE IF cd.err # "" THEN Raise(cd.err)
        ELSE IF EnvNotMapping(scopes) THEN Raise("AttributeError")
        ELSE Return(<<Job("RUN", Join("\n", exe))>>,
                    PopAll(task_args, <<"environment", "chdir", "name", "args">>))

task_command(task, task_args, kw) ==
    task_shell(task, task_args, kw)

task_set_fact(task, task_args, kw) ==
    LET facts == Get(task, "set_fact")
        args == SelectSeq(facts.m, LAMBDA arg : arg[1] # "cacheable")
    IN  IF facts.t # "dict" THEN Raise("AttributeError")
        ELSE Return([i \in 1..Len(args) |->
                        Job("ARG", args[i][1] \o " \"" \o PyStr(args[i][2]) \o "\"")],
                    task_args)

states_map(state) ==
    CASE state = Str("installed") -> Str("present")
      [] state = Str("present") -> Str("present")
      [] state = Str("absent") -> Str("absent")
      [] state = Str("removed") -> Str("absent")
      [] state = Str("latest") -> Str("latest")
      [] OTHER -> state

\* the condition under which a package task updates every package
UpdatesAllAnyState(pkgs, state) ==
    pkgs = Str("*")

UpdatesAll(pkgs, state) ==
    pkgs = Str("*") /\ state = Str("latest")

task_dnf(task, task_args, kw) ==
    LET acts == SelectSeq(<<"yum", "dnf", "package">>, LAMBDA act : Has(task, act))
        t == Get(task, acts[1])
        pkgs == Get(t.m, "name")
        state == states_map(GetOr(t.m, "state", Str("present")))
        given == GetOr(t.m, "exclude", Str(""))
        exclude == IF Truthy(given)
                   THEN Str("--exclude \"" \o PyStr(given) \o "\"")
                   ELSE given
        names == IF pkgs.t = "str" THEN <<pkgs>> ELSE Elems(pkgs)
        args == (IF Truthy(exclude) THEN <<exclude.s>> ELSE <<>>)
                \o (IF state = Str("latest") THEN <<"--latest">>
                    ELSE IF state = Str("absent") THEN <<"--absent">>
                    ELSE <<>>)
    IN  IF Len(acts) = 0 THEN Raise("ValueError")
        ELSE IF t.t # "dict" THEN Raise("TypeError")
        ELSE IF ~Has(t.m, "name") THEN Raise("KeyError")
        ELSE IF \E i \in 1..Len(t.m) : t.m[i][1] \notin {"name", "state", "exclude"}
        THEN Raise("ValueError")
        ELSE IF UpdatesAll(pkgs, state)
        THEN Return(<<Job("RUN", "dnf update -y " \o PyStr(exclude))>>, task_args)
        ELSE IF pkgs.t \notin {"str", "list"}
                \/ \E i \in 1..Len(names) : names[i].t # "str"
        THEN Raise("TypeError")
        ELSE Return(<<Job("DNF", Join(" ", args \o [i \in 1..Len(names) |-> names[i].s]))>>,
                    task_args)

task_package(task, task_args, kw) ==
    task_dnf(task, task_args, kw)

task_yum(task, task_args, kw) ==
    task_dnf(task, task_args, kw)

task_setup(task, task_args, kw) ==
    Return(<<Job("FACTER", "")>>, task_args)

\* the state, enabled (and masked) flags of a service task
ServiceFlags(svc, withMask) ==
    LET state == GetOr(svc, "state", None)
        enabled == GetOr(svc, "enabled", None)
        masked == GetOr(svc, "masked", None)
    IN  (IF state = Str("stopped") THEN <<"--stopped">>
         ELSE IF state = Str("restarted") THEN <<"--restarted">>
         ELSE IF state = Str("reloaded") THEN <<"--reloaded">>
         ELSE <<>>)
        \o (IF enabled.t = "none" THEN <<>>
            ELSE IF Truthy(enabled) THEN <<"--enable">> ELSE <<"--disable">>)
        \o (IF ~withMask \/ masked.t = "none" THEN <<>>
            ELSE IF Truthy(masked) THEN <<"--mask">> ELSE <<"--unmask">>)

task_service(task, task_args, kw) ==
    LET svc == Get(task, "service")
        given == Sub(svc, "name")
        names == IF given.val.t = "str" THEN <<given.val>> ELSE Elems(given.val)
    IN  IF given.err # "" THEN Raise(given.err)
        ELSE IF given.val.t \notin {"str", "list"}
                \/ \E i \in 1..Len(names) : names[i].t # "str"
        THEN Raise("TypeError")
        ELSE Return(<<Job("SERVICE",
                          Join(" ", ServiceFlags(svc.m, FALSE)
                                    \o [i \in 1..Len(names) |-> names[i].s]))>>,
                    task_args)

task_systemd(task, task_args, kw) ==
    LET svc == Get(task, "systemd")
        name == Sub(svc, "name")
        reload == GetOr(svc.m, "daemon_reload", GetOr(svc.m, "daemon-reload", None))
    IN  IF name.err # "" THEN Raise(name.err)
        ELSE IF name.val.t # "str" THEN Raise("TypeError")
        ELSE Return(<<Job("SERVICE",
                          Join(" ", ServiceFlags(svc.m, TRUE)
                                    \o (IF Truthy(reload) THEN <<"--daemon-reload">>
                                        ELSE <<>>)
                                    \o <<name.val.s>>))>>,
                    task_args)

\* mode = int(mode, 8) for a mode given as a string
OctalMode(mode) ==
    IF mode.t # "str" THEN [err |-> "", val |-> mode]
    ELSE IF mode.s = "" \/ ParseBase(mode.s, 8, 0) < 0
    THEN [err |-> "ValueError", val |-> None]
    ELSE [err |-> "", val |-> Num(ParseBase(mode.s, 8, 0))]

\* whether a mode is one `{mode:o}` can format
ModeFormats(mode) ==
    ~Truthy(mode) \/ mode.t \in {"int", "bool"}

\* f"0{mode:o}", and the same with the mode written in decimal
ModeTextDecimal(mode) ==
    "0" \o FormatBase(mode.n, 10)

ModeText(mode) ==
    "0" \o FormatBase(mode.n, 8)

\* the condition under which a rule emits the mode
ModeGiven(mode) ==
    Truthy(mode)

\* the --chmod flag of copy, template and file
ChmodFlag(mode) ==
    IF ModeGiven(mode) THEN <<"--chmod " \o ModeText(mode)>> ELSE <<>>

\* x or y
PyOr(a, b) ==
    IF Truthy(a) THEN a ELSE b

\* the --chown flag of copy, template and file
ChownFlag(owner, group) ==
    IF Truthy(owner) /\ Truthy(group)
    THEN <<"--chown " \o PyStr(owner) \o ":" \o PyStr(group)>>
    ELSE IF Truthy(owner) \/ Truthy(group)
    THEN <<"--chown " \o PyStr(PyOr(owner, group))>>
    ELSE <<>>

\* the SECONTEXT job of copy, template and file
SeContext(selevel, setype, seuser, dest) ==
    IF Truthy(selevel) \/ Truthy(setype) \/ Truthy(seuser)
    THEN <<Job("SECONTEXT",
               Join(" ", (IF Truthy(selevel) THEN <<"--selevel " \o PyStr(selevel)>>
                          ELSE <<>>)
                         \o (IF Truthy(setype) THEN <<"--setype " \o PyStr(setype)>>
                             ELSE <<>>)
                         \o (IF Truthy(seuser) THEN <<"--seuser " \o PyStr(seuser)>>
                             ELSE <<>>)
                         \o <<dest>>))>>
    ELSE <<>>

\* the validation jobs of copy and template: the command on the backup
\* copy, and the removal of the backup copy when no backup was asked for
ValidateJobs(validate, backup, dest) ==
    IF Truthy(validate)
    THEN <<Job("RUN", Replace(validate.s, "%s", dest \o ".backup"))>>
         \o (IF backup.t = "none" THEN <<Job("RUN", "rm -f " \o dest \o ".backup")>>
             ELSE <<>>)
    ELSE <<>>

task_copy(task, task_args, kw) ==
    LET c == Get(task, "copy")
        dest == Sub(c, "dest")
        src == GetOr(c.m, "src", None)
        force == GetOr(c.m, "force", Bool(TRUE))
        mode == OctalMode(GetOr(c.m, "mode", None))
        owner == GetOr(c.m, "owner", None)
        group == GetOr(c.m, "group", None)
        given == GetOr(c.m, "backup", None)
        validate == GetOr(c.m, "validate", None)
        content == GetOr(c.m, "content", None)
        backup == IF Truthy(given) \/ Truthy(validate) THEN Str("backup") ELSE given
        copyargs == ChmodFlag(mode.val) \o ChownFlag(owner, group)
        vjobs == ValidateJobs(validate, given, dest.val.s)
        staged == Truthy(backup) \/ Len(vjobs) > 0
        remote == <<Job("RUN", "cp -r " \o PyStr(src) \o " " \o dest.val.s)>>
                  \o (IF Truthy(owner) \/ Truthy(group)
                      THEN <<Job("RUN", "chown -R "
                                        \o (IF Truthy(owner) /\ Truthy(group)
                                            THEN PyStr(owner) \o ":" \o PyStr(group)
                                            ELSE PyStr(PyOr(owner, group)))
                                        \o " " \o dest.val.s)>>
                      ELSE <<>>)
                  \o (IF ModeGiven(mode.val)
                      THEN <<Job("RUN", "chmod -R " \o ModeText(mode.val)
                                        \o " " \o dest.val.s)>>
                      ELSE <<>>)
        local == <<Job("COPY", Join(" ", copyargs \o <<PyStr(src), dest.val.s>>))>>
        copy == IF Truthy(GetOr(c.m, "remote_src", None))
                THEN (IF staged
                      THEN <<Job("RUN", "cp -r " \o PyStr(src) \o " " \o dest.val.s
                                        \o "." \o PyStr(backup))>>
                           \o vjobs \o remote
                      ELSE remote)
                ELSE (IF staged
                      THEN <<Job("COPY", Join(" ", copyargs
                                   \o <<PyStr(src),
                                        dest.val.s \o "." \o PyStr(backup)>>))>>
                           \o vjobs \o local
                      ELSE local)
    IN  IF dest.err # "" THEN Raise(dest.err)
        ELSE IF mode.err # "" THEN Raise(mode.err)
        ELSE IF Truthy(content) THEN Raise("NotImplementedError")
        ELSE IF ~ModeFormats(mode.val) \/ dest.val.t # "str"
                \/ (Truthy(validate) /\ validate.t # "str")
        THEN Raise("TypeError")
        ELSE IF ~Truthy(src) THEN Raise("ValueError")
        ELSE IF ~Truthy(GetOr(c.m, "remote_src", None)) /\ ~Truthy(force)
        THEN Raise("NotImplementedError")
        ELSE IF ~Truthy(GetOr(c.m, "remote_src", None)) /\ src.t # "str"
        THEN Raise("TypeError")
        ELSE Return(copy \o SeContext(GetOr(c.m, "selevel", None),
                                      GetOr(c.m, "setype", None),
                                      GetOr(c.m, "seuser", None), dest.val.s),
                    task_args)

task_template(task, task_args, kw) ==
    LET c == Get(task, "template")
        dest == Sub(c, "dest")
        src == GetOr(c.m, "src", None)
        force == GetOr(c.m, "force", Bool(TRUE))
        mode == OctalMode(GetOr(c.m, "mode", None))
        given == GetOr(c.m, "backup", None)
        validate == GetOr(c.m, "validate", None)
        backup == IF Truthy(given) \/ Truthy(validate) THEN Str("backup") ELSE given
        templargs == <<"--blueprint">> \o ChmodFlag(mode.val)
                     \o ChownFlag(GetOr(c.m, "owner", None), GetOr(c.m, "group", None))
        vjobs == ValidateJobs(validate, given, dest.val.s)
        final == <<Job("COPY", Join(" ", templargs \o <<src.s, dest.val.s>>))>>
        copy == IF Truthy(backup) \/ Len(vjobs) > 0
                THEN <<Job("COPY", Join(" ", templargs
                             \o <<src.s, dest.val.s \o "." \o PyStr(backup)>>))>>
                     \o vjobs \o final
                ELSE final
    IN  IF dest.err # "" THEN Raise(dest.err)
        ELSE IF ~Truthy(force) THEN Raise("NotImplementedError")
        ELSE IF mode.err # "" THEN Raise(mode.err)
        ELSE IF ~ModeFormats(mode.val) \/ dest.val.t # "str" \/ src.t # "str"
                \/ (Truthy(validate) /\ validate.t # "str")
        THEN Raise("TypeError")
        ELSE Return(copy \o SeContext(GetOr(c.m, "selevel", None),
                                      GetOr(c.m, "setype", None),
                                      GetOr(c.m, "seuser", None), dest.val.s),
                    task_args)

\* task_file.get_shell_command: the chmod, chown and chcon lines
get_shell_command(mode, owner, group, setype, recurse, path, condition_start, condition_end) ==
    LET r == IF Truthy(recurse) THEN " -R" ELSE ""
        owner_group == RStrip((IF Truthy(owner) THEN PyStr(owner) ELSE "") \o ":"
                              \o (IF Truthy(group) THEN PyStr(group) ELSE ""), ":")
    IN  (IF ModeGiven(mode)
         THEN <<Job("RUN", condition_start \o "chmod" \o r \o " " \o ModeText(mode)
                           \o " " \o path \o condition_end)>>
         ELSE <<>>)
        \o (IF Truthy(owner) \/ Truthy(group)
            THEN <<Job("RUN", condition_start \o "chown" \o r \o " " \o owner_group
                              \o " " \o path \o condition_end)>>
            ELSE <<>>)
        \o (IF Truthy(setype)
            THEN <<Job("RUN", condition_start \o "chcon" \o r \o " -t " \o PyStr(setype)
                              \o " " \o path \o condition_end)>>
            ELSE <<>>)

task_file(task, task_args, kw) ==
    LET f == Get(task, "file")
        given == Sub(f, "path")
        path == PyStr(given.val)
        state == GetOr(f.m, "state", Str("file"))
        mode == OctalMode(GetOr(f.m, "mode", None))
        owner == GetOr(f.m, "owner", None)
        group == GetOr(f.m, "group", None)
        selevel == GetOr(f.m, "selevel", None)
        setype == GetOr(f.m, "setype", None)
        seuser == GetOr(f.m, "seuser", None)
        recurse == GetOr(f.m, "recurse", None)
        wrkdir_args == ChmodFlag(mode.val) \o ChownFlag(owner, group)
        result == Job("WORKDIR", LStrip(Join(" ", wrkdir_args \o <<path>>)))
        sec == SeContext(selevel, setype, seuser, path)
    IN  IF given.err # "" THEN Raise(given.err)
        ELSE IF mode.err # "" THEN Raise(mode.err)
        ELSE IF state = Str("directory")
        THEN (IF ~ModeFormats(mode.val) \/ given.val.t # "str" THEN Raise("TypeError")
              ELSE IF ~Truthy(recurse) THEN Return(<<result>> \o sec, task_args)
              ELSE Return(<<result>> \o sec
                          \o get_shell_command(mode.val, owner, group, setype,
                                               Bool(TRUE), path, "", ""),
                          task_args))
        ELSE IF state = Str("absent")
        THEN Return(<<Job("RUN", "rm -rf " \o path)>>, task_args)
        ELSE IF state \in {Str("touch"), Str("file")}
        THEN (IF ~ModeFormats(mode.val) THEN Raise("TypeError")
              ELSE Return((IF state = Str("touch")
                           THEN <<Job("RUN", "touch " \o path)>> ELSE <<>>)
                          \o get_shell_command(
                                mode.val, owner, group, setype, recurse, path,
                                IF state = Str("file")
                                THEN "if [ -e " \o path \o " ]; then " ELSE "",
                                IF state = Str("file") THEN "; fi" ELSE ""),
                          task_args))
        ELSE Raise("NotImplementedError")

(* ------------------------------------------------------------------ *)
(* AnsibleTask.parse                                                  *)
(* ------------------------------------------------------------------ *)
\* the names for which AnsibleTask has a method task_<name>
TaskMethods ==
    {"shell", "command", "set_fact", "dnf", "package", "yum", "setup",
     "service", "systemd", "copy", "template", "file"}

\* getattr(self, "task_" + task_module)(task_args)
CallTaskMethod(task_module, task, task_args, kw) ==
    CASE task_module = "shell" -> task_shell(task, task_args, kw)
      [] task_module = "command" -> task_command(task, task_args, kw)
      [] task_module = "set_fact" -> task_set_fact(task, task_args, kw)
      [] task_module = "dnf" -> task_dnf(task, task_args, kw)
      [] task_module = "package" -> task_package(task, task_args, kw)
      [] task_module = "yum" -> task_yum(task, task_args, kw)
      [] task_module = "setup" -> task_setup(task, task_args, kw)
      [] task_module = "service" -> task_service(task, task_args, kw)
      [] task_module = "systemd" -> task_systemd(task, task_args, kw)
      [] task_module = "copy" -> task_copy(task, task_args, kw)
      [] task_module = "template" -> task_template(task, task_args, kw)
      [] OTHER -> task_file(task, task_args, kw)

\* the rewriting of a namespace-qualified key: the value moves to the
\* short key and the long key is removed
RenameKeepingLongKey(task, task_module, new_task_module) ==
    Put(task, new_task_module, Get(task, task_module))

RenameKey(task, task_module, new_task_module) ==
    Put(Pop(task, task_module), new_task_module, Get(task, task_module))

\* the segment of a qualified name that names the module
FirstSegment(task_module) ==
    Split(task_module, ".")[1]

ShortName(task_module) ==
    LET parts == Split(task_module, ".") IN parts[Len(parts)]

\* lines 57-65: the value of the action made a mapping when it is a
\* single-line string (value: what string2dict returns for it), and
\* the structural markers refused
normalise(task, task_module, parses, value) ==
    IF parses /\ value.err # ""
    THEN [err |-> value.err, module |-> task_module, task |-> task]
    ELSE IF task_module \in {"block", "include", "include_tasks"}
    THEN [err |-> "ValueError", module |-> task_module,
          task |-> IF parses THEN Put(task, task_module, Dict(value.dict)) ELSE task]
    ELSE [err |-> "", module |-> task_module,
          task |-> IF parses THEN Put(task, task_module, Dict(value.dict)) ELSE task]

\* whether the value of the action is a string to make a mapping of
Parses(task, task_module) ==
    /\ Get(task, task_module).t = "str"
    /\ task_module \notin {"command", "shell", "include_vars"}

\* lines 53-56: the collection part of the action removed
shorten(task, action, task_module) ==
    IF Contains(action, ".") /\ ~Has(task, action)
    THEN [err |-> "KeyError", module |-> task_module, task |-> task]
    ELSE IF Contains(action, ".")
    THEN (IF Parses(RenameKey(task, action, task_module), task_module)
          THEN normalise(RenameKey(task, action, task_module), task_module, TRUE,
                         string2dict(Get(task, action).s))
          ELSE normalise(RenameKey(task, action, task_module), task_module, FALSE,
                         [err |-> "", dict |-> <<>>]))
    ELSE IF ~Has(task, task_module)
    THEN [err |-> "KeyError", module |-> task_module, task |-> task]
    ELSE IF Parses(task, task_module)
    THEN normalise(task, task_module, TRUE, string2dict(Get(task, task_module).s))
    ELSE normalise(task, task_module, FALSE, [err |-> "", dict |-> <<>>])

\* lines 50-52: the action found, or the exception of get_task_action
resolved(task, found) ==
    IF found.err # "" THEN [err |-> found.err, module |-> "", task |-> task]
    ELSE shorten(task, found.action,
                 IF Contains(found.action, ".") THEN ShortName(found.action)
                 ELSE found.action)

\* lines 50-65: the action of the task, and the task as normalised in
\* place (qualified key renamed, single-line value made a mapping)
resolve(task) ==
    resolved(task, get_task_action(task))

\* a job as emitted: the mapping and its start comment
Directive(map, comment) ==
    [map |-> map, comment |-> comment]

\* the scopes whose context is prepended to the task's, in this order:
\* the last one prepended comes first in the comment
ContextScopesPlayFirst(kw) ==
    <<kw.play, kw.role, kw.include, kw.block>>

ContextScopes(kw) ==
    <<kw.block, kw.include, kw.role, kw.play>>

\* lines 100-102: each scope's context joined in front of the context
RECURSIVE PrependContexts(_, _)
PrependContexts(scopes, context) ==
    IF Len(scopes) = 0 THEN context
    ELSE PrependContexts(
            Tail(scopes),
            IF Truthy(scopes[1]) /\ Has(scopes[1].m, "context")
            THEN Join("\n", <<PyStr(Get(scopes[1].m, "context")), context>>)
            ELSE context)

\* what the comment of an unsupported task's ECHO job is written from
EchoContext(task) ==
    yaml_dump(task)

\* lines 89-107: the jobs named and commented (task_context: the text
\* of the residue, "" when there is none)
commented(r, kw, name, parsed, task_context) ==
    [err |-> "",
     jobs |-> [i \in 1..Len(parsed) |->
                 Directive(<<<<"NAME", name>>>> \o parsed[i],
                           "\n" \o PrependContexts(
                                      ContextScopes(kw),
                                      IF task_context # ""
                                      THEN "TASK-CONTEXT:\n" \o task_context
                                      ELSE ""))],
     task |-> r.task, module |-> r.module]

\* lines 87-95: the result of the module's rule
ruled(r, kw, rule) ==
    IF rule.err # ""
    THEN [err |-> rule.err, jobs |-> <<>>, task |-> r.task, module |-> r.module]
    ELSE commented(r, kw, GetOr(r.task, "name", Str("Unnamed task")), rule.parsed,
               IF Len(rule.ctx) > 0 THEN yaml_dump(rule.ctx) ELSE "")

\* lines 66-88: the rule of the module called with the attributes that
\* are neither the action nor the name, or the ECHO job of a module
\* without a rule
translated(r, kw) ==
    IF r.err # ""
    THEN [err |-> r.err, jobs |-> <<>>, task |-> r.task, module |-> r.module]
    ELSE IF r.module \in TaskMethods
    THEN ruled(r, kw,
               CallTaskMethod(r.module, r.task,
                              SelectSeq(r.task, LAMBDA p : p[1] \notin {r.module, "name"}),
                              kw))
    ELSE commented(r, kw, GetOr(r.task, "name", Str("Unnamed task")),
               <<Job("ECHO", "Conversion of task module '" \o r.module
                             \o "' is not implemented yet!")>>,
               EchoContext(r.task))

\* AnsibleTask(task, **kw).parse(): the exception raised (err), the jobs
\* returned, the task as left in place and the action resolved
AnsibleTask_parse(task, kw) ==
    translated(resolve(task), kw)

(* ------------------------------------------------------------------ *)
(* The scopes: AnsibleBlock, AnsibleIncludeTasks, AnsiblePlay          *)
(* ------------------------------------------------------------------ *)
\* the keyword arguments a scope hands down (**kwargs): None for a
\* keyword that is not passed
NoKw ==
    [block |-> None, include |-> None, role |-> None, play |-> None]

\* one job per entry of a scope's environment (or vars)
EnvJobs(scope, key, label, kind) ==
    IF Has(scope, key)
    THEN LET e == Get(scope, key).m
         IN  [i \in 1..Len(e) |->
                Directive(<<<<"NAME", Str("Set " \o label \o " value for " \o e[i][1])>>,
                            <<kind, Str(e[i][1] \o " " \o PyStr(e[i][2]))>>>>, "")]
    ELSE <<>>

\* the "KEY: value" lines of a scope: its attributes of the allow-list
\* that are not consumed elsewhere
ContextLines(header, scope, attrs, consumed) ==
    LET parts == SelectSeq(scope, LAMBDA p : p[1] \in attrs /\ p[1] \notin consumed)
    IN  Join("\n", <<header>> \o [i \in 1..Len(parts) |->
                                    parts[i][1] \o ": " \o PyStr(parts[i][2])])

AnsibleBlock_add_context(block) ==
    ContextLines("## BLOCK-CONTEXT:", block, BLOCK_ATTRS, {"block", "environment"})

AnsibleIncludeTasks_add_context(include) ==
    ContextLines("## INCLUDE-CONTEXT:", include, TASK_ATTRS,
                 {"include", "include_tasks", "environment"})

AnsiblePlay_add_context(playbook) ==
    ContextLines("## PLAYBOOK-CONTEXT:", playbook, PLAYBOOK_ATTRS,
                 {"environment", "hosts", "gather_facts", "tasks", "pre_tasks",
                  "post_tasks", "vars"})

\* what AnsibleBlock.parse and AnsibleIncludeTasks.parse return: the
\* list of the environment jobs is replaced by the list of the nested
\* tasks' jobs
ScopeResult(env_result, list_result) ==
    list_result

\* AnsiblePlay.parse, lines 818-848: the jobs that precede the tasks
\* (and not: the variables before the environment)
PlayPrologueVarsFirst(playbook) ==
    EnvJobs(playbook, "vars", "playbook arg", "ARG")
    \o EnvJobs(playbook, "environment", "playbook env", "ENV")
    \o (IF Truthy(GetOr(playbook, "gather_facts", Bool(FALSE)))
        THEN <<Directive(<<<<"NAME", Str("Gather facts for playbook")>>,
                           <<"FACTER", Str("")>>>>, "")>>
        ELSE <<>>)

PlayPrologue(playbook) ==
    EnvJobs(playbook, "environment", "playbook env", "ENV")
    \o EnvJobs(playbook, "vars", "playbook arg", "ARG")
    \o (IF Truthy(GetOr(playbook, "gather_facts", Bool(FALSE)))
        THEN <<Directive(<<<<"NAME", Str("Gather facts for playbook")>>,
                           <<"FACTER", Str("")>>>>, "")>>
        ELSE <<>>)

\* the keys under which AnsiblePlay.parse finds the play's task lists
\* (and not: the spellings with an underscore)
PlayTaskKeysUnderscored ==
    {"pre_tasks", "tasks", "post_tasks"}

PlayTaskKeys ==
    {"pre-tasks", "tasks", "post-tasks"}

\* the play_dict returned: targets unless the play is for all hosts
PlayDict(playbook, play_result) ==
    [kind |-> "play",
     job |-> Directive(<<>>, ""),
     targets |-> IF Get(playbook, "hosts") # Str("all")
                 THEN <<Get(playbook, "hosts")>> ELSE <<>>,
     jobs |-> play_result]

\* an entry of parse_file's result that is one job
JobEntry(d) ==
    [kind |-> "job", job |-> d, targets |-> <<>>, jobs |-> <<>>]

\* vars_parse(vars_content)[0]["jobs"]
vars_parse(vars_content) ==
    [i \in 1..Len(vars_content) |->
        Directive(<<<<"ARG", Str(vars_content[i][1] \o " "
                                 \o PyStr(vars_content[i][2]))>>>>, "")]

\* os.path.join(a, b)
os_path_join(a, b) ==
    IF StartsWith(b, "/") THEN b
    ELSE IF a = "" \/ SubSeq(a, Len(a), Len(a)) = "/" THEN a \o b
    ELSE a \o "/" \o b

\* the directory and the name of a path
DirName(path) ==
    LET parts == Split(path, "/")
    IN  Join("/", SubSeq(parts, 1, Len(parts) - 1))

BaseName(path) ==
    LET parts == Split(path, "/") IN parts[Len(parts)]

(* ------------------------------------------------------------------ *)
(* State                                                              *)
(* ------------------------------------------------------------------ *)
VARIABLES
    argv,    \* the command line: [role |-> path or "", file |-> path or ""]
    fs,      \* the files read: path |-> loaded YAML document
    pc,      \* where main() is: "main_role", "role_parse", "main_file",
             \* "parse_file", "exit", or "raised" after an exception
    stack,   \* the calls in progress of role_parse, parse_file,
             \* AnsiblePlay.parse and AnsibleTasksList.parse, outermost first
    stdout,  \* the documents printed, in order
    err,     \* the exception that ended main(), "" when there is none
    call     \* the latest call of AnsibleTask.parse: its task, its scopes,
             \* and what it raised, returned and left of the task

vars ==
    <<argv, fs, pc, stack, stdout, err, call>>

\* a call in progress: the list it iterates over (items) and where it is
\* (i), its result so far, the scopes it hands down (kw), the include
\* prefix, the play of AnsiblePlay.parse (scope), and for the list of a
\* block or include (via) the environment jobs that scope built (lead)
Frame(fn, items, kw, prefix, scope, result, via, lead) ==
    [fn |-> fn, items |-> items, i |-> 1, result |-> result, kw |-> kw,
     prefix |-> prefix, scope |-> scope, via |-> via, lead |-> lead]

NoCall ==
    [made |-> FALSE, task |-> <<>>, kw |-> NoKw, err |-> "", jobs |-> <<>>,
     node |-> <<>>, module |-> ""]

Top ==
    stack[Len(stack)]

Depth ==
    Len(stack)

\* the stack with its innermost call replaced
WithTop(f) ==
    [stack EXCEPT ![Len(stack)] = f]

\* the exception propagates out of main(): nothing catches it (and not:
\* it is caught where the conversion was called and what was converted
\* so far is printed)
RaisedAndPrinted(e) ==
    /\ pc' = "raised"
    /\ err' = e
    /\ stdout' = Append(stdout, IF stack = <<>> THEN <<>> ELSE stack[1].result)
    /\ UNCHANGED <<argv, fs, stack>>

Raised(e) ==
    /\ pc' = "raised"
    /\ err' = e
    /\ UNCHANGED <<argv, fs, stack, stdout>>

\* the return of AnsibleTask(task, **kw).parse() to the loop that
\* called it: the jobs are appended to the loop's result (as entries of
\* the file's result when parse_file is the caller), or the exception
\* propagates (and not: the jobs are put in front of the result)
TaskReturnInFront(task, kw, r, of_file) ==
    /\ call' = [made |-> TRUE, task |-> task, kw |-> kw, err |-> r.err,
                jobs |-> r.jobs, node |-> r.task, module |-> r.module]
    /\ IF r.err # "" THEN Raised(r.err)
       ELSE /\ stack' = WithTop([Top EXCEPT
                    !.i = @ + 1,
                    !.result = [j \in 1..Len(r.jobs) |->
                                  IF of_file THEN JobEntry(r.jobs[j])
                                  ELSE r.jobs[j]] \o @])
            /\ UNCHANGED <<argv, fs, pc, stdout, err>>

TaskReturn(task, kw, r, of_file) ==
    /\ call' = [made |-> TRUE, task |-> task, kw |-> kw, err |-> r.err,
                jobs |-> r.jobs, node |-> r.task, module |-> r.module]
    /\ IF r.err # "" THEN Raised(r.err)
       ELSE /\ stack' = WithTop([Top EXCEPT
                    !.i = @ + 1,
                    !.result = @ \o [j \in 1..Len(r.jobs) |->
                                       IF of_file THEN JobEntry(r.jobs[j])
                                       ELSE r.jobs[j]]])
            /\ UNCHANGED <<argv, fs, pc, stdout, err>>

TaskStep(task, kw, of_file) ==
    TaskReturn(task, kw, AnsibleTask_parse(task, kw), of_file)

\* the files of a directory tree, as <<root, name>>
Walk(dir) ==
    {<<DirName(p), BaseName(p)>> : p \in {q \in DOMAIN fs : StartsWith(q, dir \o "/")}}

\* the sequences that list the members of a set once each
Orders(S) ==
    {o \in [1..Cardinality(S) -> S] : \A a \in S : \E i \in DOMAIN o : o[i] = a}

(* ------------------------------------------------------------------ *)
(* main, role_parse, parse_file                                       *)
(* ------------------------------------------------------------------ *)
\* main.py 18-19: if args.role: print(yaml_dump(role_parse(...)))
\* role_parse 889-895: the variable files, then the task files, each
\* directory in the order the file system lists it
main_role ==
    /\ pc = "main_role"
    /\ IF argv.role = ""
       THEN pc' = "main_file" /\ UNCHANGED stack
       ELSE /\ pc' = "role_parse"
            /\ \E d \in Orders(Walk(os_path_join(argv.role, "defaults"))),
                  v \in Orders(Walk(os_path_join(argv.role, "vars"))),
                  t \in Orders(Walk(os_path_join(argv.role, "tasks"))) :
                  stack' = <<Frame("role_parse",
                                   [i \in 1..Len(d) |-> <<"vars", d[i][1], d[i][2]>>]
                                   \o [i \in 1..Len(v) |-> <<"vars", v[i][1], v[i][2]>>]
                                   \o [i \in 1..Len(t) |-> <<"tasks", t[i][1], t[i][2]>>],
                                   NoKw, "", None, <<>>, "", <<>>)>>
    /\ UNCHANGED <<argv, fs, stdout, err, call>>

\* role_parse 896-903: one variable file
role_parse_vars ==
    /\ pc = "role_parse" /\ Top.fn = "role_parse" /\ Top.i <= Len(Top.items)
    /\ Top.items[Top.i][1] = "vars"
    /\ LET content == fs[os_path_join(Top.items[Top.i][2], Top.items[Top.i][3])]
       IN  IF content.t # "dict" THEN Raised("TypeError")
           ELSE /\ stack' = WithTop([Top EXCEPT !.i = @ + 1,
                                                !.result = @ \o vars_parse(content.m)])
                /\ UNCHANGED <<argv, fs, pc, stdout, err>>
    /\ UNCHANGED call

\* role_parse 904-913: one task file, parsed with its directory as prefix
role_parse_tasks ==
    /\ pc = "role_parse" /\ Top.fn = "role_parse" /\ Top.i <= Len(Top.items)
    /\ Top.items[Top.i][1] = "tasks"
    /\ LET root == Top.items[Top.i][2]
           content == fs[os_path_join(root, Top.items[Top.i][3])]
       IN  IF content.t # "list" THEN Raised("TypeError")
           ELSE /\ stack' = Append(stack, Frame("AnsibleTasksList.parse", Elems(content),
                                                NoKw, root, None, <<>>, "", <<>>))
                /\ UNCHANGED <<argv, fs, pc, stdout, err>>
    /\ UNCHANGED call

\* role_parse 914 and main.py 19: the result is returned and printed
role_parse_return ==
    /\ pc = "role_parse" /\ Top.fn = "role_parse" /\ Top.i > Len(Top.items)
    /\ stdout' = Append(stdout, Top.result)
    /\ stack' = <<>>
    /\ pc' = "main_file"
    /\ UNCHANGED <<argv, fs, err, call>>

\* main.py 20-21 and parse_file 926-929, 937-938: the file is loaded; a
\* mapping is a file of variables
main_file ==
    /\ pc = "main_file"
    /\ IF argv.file = ""
       THEN pc' = "exit" /\ UNCHANGED <<argv, fs, stack, stdout, err>>
       ELSE IF argv.file \notin DOMAIN fs THEN Raised("FileNotFoundError")
       ELSE LET ansible_file == fs[argv.file]
            IN  /\ pc' = "parse_file"
                /\ stack' = <<Frame("parse_file",
                                    IF ansible_file.t = "list" THEN Elems(ansible_file)
                                    ELSE <<>>,
                                    NoKw, "", None,
                                    IF ansible_file.t = "dict"
                                    THEN <<[kind |-> "vars", job |-> Directive(<<>>, ""),
                                            targets |-> <<>>,
                                            jobs |-> vars_parse(ansible_file.m)]>>
                                    ELSE <<>>,
                                    "", <<>>)>>
                /\ UNCHANGED <<argv, fs, stdout, err>>
    /\ UNCHANGED call

\* parse_file 931-933: an element with hosts is a play; AnsiblePlay.parse
\* 818-852 builds the jobs that precede the tasks and the play's context
parse_file_play ==
    /\ pc = "parse_file" /\ Top.fn = "parse_file" /\ Top.i <= Len(Top.items)
    /\ Has(Top.items[Top.i].m, "hosts")
    /\ LET playbook == Top.items[Top.i].m
           scoped == Put(playbook, "context", Str(AnsiblePlay_add_context(playbook)))
       IN  IF EnvNotMapping(<<Dict(playbook)>>)
              \/ (Has(playbook, "vars") /\ Get(playbook, "vars").t # "dict")
           THEN Raised("AttributeError")
           ELSE /\ stack' = Append(stack, Frame("AnsiblePlay.parse", Keys(scoped), NoKw,
                                                "", Dict(scoped), PlayPrologue(playbook),
                                                "", <<>>))
                /\ UNCHANGED <<argv, fs, pc, stdout, err>>
    /\ UNCHANGED call

\* parse_file 934-936: any other element is parsed as a single task
parse_file_task ==
    /\ pc = "parse_file" /\ Top.fn = "parse_file" /\ Top.i <= Len(Top.items)
    /\ ~Has(Top.items[Top.i].m, "hosts")
    /\ TaskStep(Top.items[Top.i].m, NoKw, TRUE)

\* parse_file 939 and main.py 21: the result is returned and printed
parse_file_return ==
    /\ pc = "parse_file" /\ Top.fn = "parse_file" /\ Top.i > Len(Top.items)
    /\ stdout' = Append(stdout, Top.result)
    /\ stack' = <<>>
    /\ pc' = "exit"
    /\ UNCHANGED <<argv, fs, err, call>>

(* ------------------------------------------------------------------ *)
(* AnsiblePlay.parse, AnsibleTasksList.parse                          *)
(* ------------------------------------------------------------------ *)
\* the scopes a list hands down with one more scope set
WithScope(kw, name, scope) ==
    CASE name = "block" -> [kw EXCEPT !.block = scope]
      [] name = "include" -> [kw EXCEPT !.include = scope]
      [] OTHER -> [kw EXCEPT !.play = scope]

\* AnsiblePlay.parse 853-860: one key of the play
play_step ==
    /\ Depth > 0 /\ pc \in {"parse_file"}
    /\ Top.fn = "AnsiblePlay.parse" /\ Top.i <= Len(Top.items)
    /\ LET step == Top.items[Top.i]
       IN  IF step = "roles" THEN Raised("NotImplementedError")
           ELSE IF step \in PlayTaskKeys
           THEN (IF Get(Top.scope.m, step).t # "list" THEN Raised("TypeError")
                 ELSE /\ stack' = Append(stack,
                             Frame("AnsibleTasksList.parse",
                                   Elems(Get(Top.scope.m, step)),
                                   WithScope(NoKw, "play", Top.scope),
                                   "", None, <<>>, "", <<>>))
                      /\ UNCHANGED <<argv, fs, pc, stdout, err>>)
           ELSE /\ stack' = WithTop([Top EXCEPT !.i = @ + 1])
                /\ UNCHANGED <<argv, fs, pc, stdout, err>>
    /\ UNCHANGED call

\* AnsiblePlay.parse 861-862 and parse_file 933: the play_dict is
\* appended to the file's result
play_return ==
    /\ Depth > 1 /\ pc = "parse_file"
    /\ Top.fn = "AnsiblePlay.parse" /\ Top.i > Len(Top.items)
    /\ LET caller == stack[Depth - 1]
       IN  stack' = Append(SubSeq(stack, 1, Depth - 2),
                           [caller EXCEPT
                               !.i = @ + 1,
                               !.result = Append(@, PlayDict(Top.scope.m, Top.result))])
    /\ UNCHANGED <<argv, fs, pc, stdout, err, call>>

InList ==
    /\ Depth > 0 /\ pc \in {"parse_file", "role_parse"}
    /\ Top.fn = "AnsibleTasksList.parse"

IsBlock(task) ==
    Has(task, "block")

IsInclude(task) ==
    Has(task, "include") \/ Has(task, "include_tasks") \/ Has(task, "import_tasks")

\* AnsibleTasksList.parse 760-762 and AnsibleBlock.parse 659-674: the
\* environment is read, then the block is passed to the nested list next
\* to the scopes received, which fails when a block is among them
list_block ==
    /\ InList /\ Top.i <= Len(Top.items)
    /\ IsBlock(Top.items[Top.i].m)
    /\ LET block == Top.items[Top.i].m
           scoped == Put(block, "context", Str(AnsibleBlock_add_context(block)))
       IN  IF EnvNotMapping(<<Dict(block)>>) THEN Raised("AttributeError")
           ELSE IF Top.kw.block # None THEN Raised("TypeError")
           ELSE IF Get(block, "block").t # "list" THEN Raised("TypeError")
           ELSE /\ stack' = Append(stack,
                       Frame("AnsibleTasksList.parse", Elems(Get(block, "block")),
                             WithScope(Top.kw, "block", Dict(scoped)), "", None, <<>>,
                             "block",
                             EnvJobs(block, "environment", "block env", "ENV")))
                /\ UNCHANGED <<argv, fs, pc, stdout, err>>
    /\ UNCHANGED call

\* AnsibleTasksList.parse 763-771 and AnsibleIncludeTasks.parse 713-735:
\* the environment is read, the file is named and loaded, then the
\* include is passed to the nested list next to the scopes received,
\* which fails when an include is among them
list_include ==
    /\ InList /\ Top.i <= Len(Top.items)
    /\ ~IsBlock(Top.items[Top.i].m) /\ IsInclude(Top.items[Top.i].m)
    /\ LET include == Top.items[Top.i].m
           scoped == Put(include, "context",
                         Str(AnsibleIncludeTasks_add_context(include)))
           tasks_file == PyOr(GetOr(include, "include", None),
                              GetOr(include, "include_tasks", None))
           path == IF Top.prefix # "" THEN os_path_join(Top.prefix, tasks_file.s)
                   ELSE tasks_file.s
       IN  IF EnvNotMapping(<<Dict(include)>>) THEN Raised("AttributeError")
           ELSE IF tasks_file.t # "str" THEN Raised("TypeError")
           ELSE IF path \notin DOMAIN fs THEN Raised("FileNotFoundError")
           ELSE IF Top.kw.include # None THEN Raised("TypeError")
           ELSE IF fs[path].t # "list" THEN Raised("TypeError")
           ELSE /\ stack' = Append(stack,
                       Frame("AnsibleTasksList.parse", Elems(fs[path]),
                             WithScope(Top.kw, "include", Dict(scoped)), "", None, <<>>,
                             "include",
                             EnvJobs(include, "environment", "include env", "ENV")))
                /\ UNCHANGED <<argv, fs, pc, stdout, err>>
    /\ UNCHANGED call

\* AnsibleTasksList.parse 772-774: a plain task
list_task ==
    /\ InList /\ Top.i <= Len(Top.items)
    /\ ~IsBlock(Top.items[Top.i].m) /\ ~IsInclude(Top.items[Top.i].m)
    /\ TaskStep(Top.items[Top.i].m, Top.kw, FALSE)

\* AnsibleTasksList.parse 775: the list is returned, through the block
\* or include it belongs to, and the caller extends its result with it
list_return ==
    /\ InList /\ Top.i > Len(Top.items) /\ Depth > 1
    /\ LET caller == stack[Depth - 1]
           returned == IF Top.via = "" THEN Top.result
                       ELSE ScopeResult(Top.lead, Top.result)
       IN  stack' = Append(SubSeq(stack, 1, Depth - 2),
                           [caller EXCEPT !.i = @ + 1, !.result = @ \o returned])
    /\ UNCHANGED <<argv, fs, pc, stdout, err, call>>

Next ==
    \/ main_role
    \/ role_parse_vars
    \/ role_parse_tasks
    \/ role_parse_return
    \/ main_file
    \/ parse_file_play
    \/ parse_file_task
    \/ parse_file_return
    \/ play_step
    \/ play_return
    \/ list_block
    \/ list_include
    \/ list_task
    \/ list_return

(* ------------------------------------------------------------------ *)
(* The documents converted                                            *)
(* ------------------------------------------------------------------ *)
\* the number of elements of the task lists with several tasks
MaxTasks ==
    2

Opt(present, pairs) ==
    IF present THEN pairs ELSE <<>>

Env(k, v) ==
    <<<<"environment", Dict(<<<<k, Str(v)>>>>)>>>>

\* shell and command tasks: the command as a string, with a chdir
\* under args, as a mapping with cmd and chdir, under args.cmd, and as a
\* string that mentions chdir; with and without an environment, a
\* condition and an argument the rule does not read (creates)
ShellTasks ==
    {<<<<"name", Str("run")>>>>
     \o (CASE form = "mapping" ->
                <<<<key, Dict(<<<<"cmd", Str("ls -l")>>, <<"chdir", Str("/tmp")>>>>)>>>>
           [] form = "argscmd" -> <<<<key, Dict(<<>>)>>>>
           [] form = "mentions" -> <<<<key, Str("echo chdir")>>>>
           [] OTHER -> <<<<key, Str("ls -l")>>>>)
     \o (IF form = "args" \/ form = "argscmd" \/ extra = "creates"
         THEN <<<<"args", Dict(Opt(form = "args", <<<<"chdir", Str("/tmp")>>>>)
                               \o Opt(form = "argscmd", <<<<"cmd", Str("ls -l")>>>>)
                               \o Opt(extra = "creates",
                                      <<<<"creates", Str("/done")>>>>))>>>>
         ELSE <<>>)
     \o Opt(env, Env("A", "3"))
     \o Opt(extra = "when", <<<<"when", Str("ready")>>>>) :
        key \in {"shell", "command", "ansible.builtin.shell"},
        form \in {"string", "args", "mapping", "argscmd", "mentions"},
        env \in BOOLEAN,
        extra \in {"", "when", "creates"}}

\* package tasks of the three aliases
PackageTasks ==
    {<<<<"name", Str("pkg")>>,
       <<key, Dict(<<<<"name", pkgs>>>>
                   \o Opt(state # "", <<<<"state", Str(state)>>>>)
                   \o Opt(exclude, <<<<"exclude", Str("kernel*")>>>>))>>>> :
        key \in {"dnf", "yum", "package"},
        pkgs \in {Str("*"), Str("vim"), List(<<Str("vim"), Str("git")>>)},
        state \in {"", "latest", "removed", "installed"},
        exclude \in BOOLEAN}
    \cup {<<<<"dnf", Str("name=* state=latest")>>>>,
          <<<<"community.general.yum", Str("name=vim state=latest")>>>>,
          <<<<"dnf", Dict(<<<<"name", Str("vim")>>, <<"enablerepo", Str("x")>>>>)>>>>}

\* copy and template tasks
CopyTasks ==
    {<<<<"name", Str("put")>>,
       <<key, Dict(<<<<"src", Str("a.conf")>>, <<"dest", Str("/etc/a.conf")>>>>
                   \o Opt(mode.t # "none", <<<<"mode", mode>>>>)
                   \o Opt(owner, <<<<"owner", Str("root")>>>>)
                   \o Opt(remote, <<<<"remote_src", Bool(TRUE)>>>>))>>>> :
        key \in {"copy", "template", "ansible.builtin.copy"},
        mode \in {None, Str("0644"), Str("0000"), Num(420)},
        owner \in BOOLEAN,
        remote \in BOOLEAN}
    \cup {<<<<"copy", Dict(<<<<"content", Str("x")>>, <<"dest", Str("/etc/a")>>>>)>>>>,
          <<<<"copy", Dict(<<<<"src", Str("a")>>, <<"dest", Str("/etc/a")>>,
                             <<"force", Bool(FALSE)>>>>)>>>>,
          <<<<"copy", Dict(<<<<"src", Str("a")>>, <<"dest", Str("/etc/a")>>,
                             <<"force", Bool(FALSE)>>,
                             <<"remote_src", Bool(TRUE)>>>>)>>>>,
          <<<<"copy", Dict(<<<<"content", Str("x")>>, <<"dest", Str("/etc/a")>>,
                             <<"remote_src", Bool(TRUE)>>>>)>>>>,
          <<<<"copy", Dict(<<<<"dest", Str("/etc/a")>>>>)>>>>,
          <<<<"copy", Str("src=a.conf dest=/etc/a.conf mode=0644")>>,
            <<"become", Bool(TRUE)>>>>}

\* copy tasks with a validation command, with one and with two places
\* for the file's name, and with a backup asked for, refused and absent
StagedCopyTasks ==
    {<<<<"name", Str("stage")>>,
       <<"copy", Dict(<<<<"src", Str("a.conf")>>, <<"dest", Str("/etc/a.conf")>>>>
                      \o Opt(validate # "", <<<<"validate", Str(validate)>>>>)
                      \o Opt(backup.t # "none", <<<<"backup", backup>>>>)
                      \o Opt(owner, <<<<"owner", Str("root")>>>>)
                      \o Opt(remote, <<<<"remote_src", Bool(TRUE)>>>>))>>>> :
        validate \in {"", "visudo -cf %s", "cmp %s %s"},
        backup \in {None, Bool(TRUE), Bool(FALSE)},
        owner \in BOOLEAN,
        remote \in BOOLEAN}

\* copy and template tasks with a group, with and without an owner, and
\* with a mode of three digits
GroupCopyTasks ==
    {<<<<"name", Str("own")>>,
       <<key, Dict(<<<<"src", Str("a.conf")>>, <<"dest", Str("/etc/a.conf")>>>>
                   \o Opt(mode.t # "none", <<<<"mode", mode>>>>)
                   \o Opt(owner, <<<<"owner", Str("root")>>>>)
                   \o <<<<"group", Str("wheel")>>>>
                   \o Opt(remote, <<<<"remote_src", Bool(TRUE)>>>>))>>>> :
        key \in {"copy", "template"},
        mode \in {None, Str("644")},
        owner \in BOOLEAN,
        remote \in BOOLEAN}

\* file tasks
FileTasks ==
    {<<<<"name", Str("path")>>,
       <<key, Dict(<<<<"path", Str("/srv/d")>>>>
                   \o Opt(state # "", <<<<"state", Str(state)>>>>)
                   \o Opt(mode.t # "none", <<<<"mode", mode>>>>)
                   \o Opt(owner, <<<<"owner", Str("root")>>>>)
                   \o Opt(group, <<<<"group", Str("wheel")>>>>)
                   \o Opt(setype, <<<<"setype", Str("etc_t")>>>>)
                   \o Opt(recurse, <<<<"recurse", Bool(TRUE)>>>>))>>>> :
        key \in {"file"},
        state \in {"", "directory", "touch", "absent", "link", "file"},
        mode \in {None, Str("0755"), Str("0000")},
        owner \in BOOLEAN,
        group \in BOOLEAN,
        setype \in BOOLEAN,
        recurse \in BOOLEAN}

\* tasks of the other supported modules
OtherTasks ==
    {<<<<"set_fact", Dict(<<<<"a", Str("1")>>, <<"cacheable", Bool(TRUE)>>>>)>>>>,
     <<<<"setup", Dict(<<<<"filter", Str("x")>>>>)>>, <<"tags", Str("facts")>>>>,
     <<<<"service", Dict(<<<<"name", Str("sshd")>>, <<"state", Str("restarted")>>,
                           <<"enabled", Bool(TRUE)>>>>)>>>>,
     <<<<"systemd", Str("name=sshd masked=no daemon_reload=yes")>>>>}

\* tasks of modules without a rule, tasks declared through action and
\* local_action, and tasks whose action cannot be told
UnsupportedTasks ==
    {<<<<"name", Str("say")>>, <<"debug", Str("msg=hello")>>>>,
     <<<<"debug", Dict(<<<<"msg", Str("hello")>>>>)>>, <<"when", Str("ready")>>>>,
     <<<<"name", Str("say")>>, <<"ansible.builtin.debug", Str("msg=hello")>>,
       <<"when", Str("ready")>>>>,
     <<<<"community.general.ini_file", Dict(<<<<"path", Str("/etc/a")>>>>)>>,
       <<"with_items", List(<<Str("a")>>)>>>>,
     <<<<"import_role", Dict(<<<<"name", Str("common")>>>>)>>>>}

ActionTasks ==
    {<<<<"name", Str("act")>>, <<"action", Str("copy src=a dest=/etc/a")>>>>,
     <<<<"action", Str("debug msg=hello")>>>>,
     <<<<"local_action", Dict(<<<<"module", Str("debug")>>, <<"msg", Str("x")>>>>)>>>>}

BrokenTasks ==
    {<<<<"name", Str("two")>>, <<"shell", Str("ls")>>, <<"copy", Str("src=a dest=b")>>>>,
     <<<<"name", Str("none")>>, <<"when", Str("ready")>>>>,
     <<<<"file", Dict(<<<<"path", Str("/srv/d")>>, <<"state", Str("hard")>>>>)>>>>}

AllTasks ==
    ShellTasks \cup PackageTasks \cup CopyTasks \cup StagedCopyTasks
    \cup GroupCopyTasks \cup FileTasks
    \cup OtherTasks
    \cup UnsupportedTasks \cup ActionTasks \cup BrokenTasks

\* the tasks that stand next to each other in the lists of several tasks
SiblingTasks ==
    {<<<<"name", Str("run")>>, <<"shell", Str("ls -l")>>,
       <<"args", Dict(<<<<"chdir", Str("/tmp")>>>>)>>>>,
     <<<<"name", Str("put")>>,
       <<"copy", Dict(<<<<"src", Str("a.conf")>>, <<"dest", Str("/etc/a.conf")>>,
                        <<"mode", Str("0644")>>>>)>>>>,
     <<<<"name", Str("say")>>, <<"debug", Str("msg=hello")>>>>,
     <<<<"name", Str("two")>>, <<"shell", Str("ls")>>, <<"copy", Str("src=a dest=b")>>>>,
     <<<<"dnf", Dict(<<<<"name", Str("vim")>>>>)>>>>}

\* the tasks placed inside plays and blocks
ScopedTasks ==
    {t \in ShellTasks : Has(t, "shell")}
    \cup {<<<<"name", Str("say")>>, <<"debug", Str("msg=hello")>>>>,
          <<<<"debug", Dict(<<<<"msg", Str("hello")>>>>)>>, <<"when", Str("ready")>>>>,
          <<<<"file", Dict(<<<<"path", Str("/srv/d")>>, <<"state", Str("directory")>>,
                             <<"recurse", Bool(TRUE)>>, <<"mode", Str("0755")>>>>)>>,
            <<"register", Str("made")>>>>,
          <<<<"file", Dict(<<<<"path", Str("/srv/d")>>, <<"state", Str("hard")>>>>)>>>>}

\* the lists of one task, bare or in a block with or without an
\* environment and a condition
ScopedLists ==
    {<<Dict(t)>> : t \in ScopedTasks}
    \cup {<<Dict(Opt(named, <<<<"name", Str("group")>>>>)
                 \o <<<<"block", List(<<Dict(t)>>)>>>>
                 \o Opt(env, Env("B", "2"))
                 \o Opt(cond, <<<<"when", Str("wanted")>>>>))>> :
             t \in ScopedTasks, named \in {FALSE}, env \in BOOLEAN, cond \in BOOLEAN}

\* the lists that nest blocks and reach other files
NestedLists ==
    {<<Dict(<<<<"include_tasks", Str("more.yml")>>, <<"when", Str("ready")>>>>)>>,
     <<Dict(<<<<"include", Str("more.yml")>>>> \o Env("C", "4")),
       Dict(<<<<"setup", Dict(<<>>)>>>>)>>,
     <<Dict(<<<<"import_tasks", Str("more.yml")>>>>)>>,
     <<Dict(<<<<"include_tasks", Str("outer.yml")>>>>)>>,
     <<Dict(<<<<"include_tasks", Str("absent.yml")>>>>)>>,
     <<Dict(<<<<"block", List(<<Dict(<<<<"block", List(<<Dict(<<<<"setup",
                                        Dict(<<>>)>>>>)>>)>>>>)>>)>>>>)>>,
     <<Dict(<<<<"block", List(<<Dict(<<<<"include_tasks", Str("more.yml")>>>>)>>)>>>>),
       Dict(<<<<"setup", Dict(<<>>)>>>>)>>,
     <<Dict(<<<<"name", Str("run")>>, <<"shell", Str("ls -l")>>>>),
       Dict(<<<<"name", Str("say")>>, <<"debug", Str("msg=hello")>>>>),
       Dict(<<<<"dnf", Dict(<<<<"name", Str("vim")>>>>)>>>>)>>,
     <<Dict(<<<<"name", Str("run")>>, <<"shell", Str("ls -l")>>>>),
       Dict(<<<<"block", List(<<Dict(<<<<"name", Str("say")>>,
                                       <<"debug", Str("msg=hello")>>>>),
                                Dict(<<<<"setup", Dict(<<>>)>>>>)>>)>>>>
            \o Env("B", "2")),
       Dict(<<<<"include_tasks", Str("more.yml")>>>>),
       Dict(<<<<"dnf", Dict(<<<<"name", Str("vim")>>>>)>>>>)>>}

\* plays: for all hosts or some, with and without an environment and an
\* attribute that is not translated
Plays ==
    {Dict(<<<<"hosts", Str(hosts)>>>>
          \o Opt(env, Env("A", "1"))
          \o Opt(attr, <<<<"become", Bool(TRUE)>>>>)
          \o <<<<"tasks", List(tasks)>>>>) :
        hosts \in {"all", "web"}, env \in BOOLEAN, attr \in BOOLEAN,
        tasks \in ScopedLists}
    \cup {Dict(<<<<"hosts", Str("web")>>, <<"tasks", List(tasks)>>>>) :
            tasks \in NestedLists}
    \cup {Dict(<<<<"hosts", Str("all")>>, <<"gather_facts", Bool(facts)>>,
                 <<"vars", Dict(<<<<"port", Num(80)>>, <<"user", Str("www")>>>>)>>>>
               \o Opt(env, <<<<"environment",
                                Dict(<<<<"A", Str("1")>>, <<"B", Str("2")>>>>)>>>>)
               \o <<<<section, List(<<Dict(<<<<"setup", Dict(<<>>)>>>>)>>)>>>>) :
            facts \in BOOLEAN, env \in BOOLEAN,
            section \in {"pre-tasks", "post-tasks", "pre_tasks", "post_tasks", "roles"}}
    \cup {Dict(<<<<"hosts", Str("web")>>>>
               \o Opt(attr, <<<<"become", Bool(TRUE)>>>>)
               \o <<<<"pre_tasks", List(<<Dict(<<<<"setup", Dict(<<>>)>>>>)>>)>>,
                    <<"tasks", List(<<Dict(<<<<"name", Str("run")>>,
                                             <<"shell", Str("ls -l")>>>>)>>)>>,
                    <<"post_tasks", List(<<Dict(<<<<"name", Str("say")>>,
                                                  <<"debug", Str("msg=hello")>>>>)>>)>>>>) :
            attr \in BOOLEAN}

\* the sequences of 1 to n members of S
SeqsUpTo(S, n) ==
    UNION {[1..k -> S] : k \in 1..n}

\* the documents given with --file: one task, several tasks, plays, a
\* list with a block or an include at top level, a file of variables
FileDocs ==
    {List(<<Dict(t)>>) : t \in AllTasks}
    \cup {List([i \in DOMAIN ts |-> Dict(ts[i])]) : ts \in SeqsUpTo(SiblingTasks, MaxTasks)}
    \cup {List(<<play>>) : play \in Plays}
    \cup {List(tasks) : tasks \in NestedLists}
    \cup {Dict(<<<<"port", Num(80)>>, <<"user", Str("www")>>>>)}

\* the task files of the role
RoleDocs ==
    {List([i \in DOMAIN ts |-> Dict(ts[i])]) : ts \in SeqsUpTo(SiblingTasks, MaxTasks)}
    \cup {List(tasks) : tasks \in NestedLists}

\* the files: the file converted, the files reached by include, and the
\* role's
Files(doc, roleDoc) ==
    ("site.yml" :> doc)
    @@ ("more.yml" :> List(<<Dict(<<<<"name", Str("more")>>, <<"shell", Str("date")>>>>)>>))
    @@ ("outer.yml" :> List(<<Dict(<<<<"include_tasks", Str("more.yml")>>>>)>>))
    @@ ("roles/web/defaults/main.yml" :> Dict(<<<<"port", Num(80)>>>>))
    @@ ("roles/web/vars/main.yml" :> Dict(<<<<"user", Str("www")>>>>))
    @@ ("roles/web/tasks/main.yml" :> roleDoc)
    @@ ("roles/web/tasks/more.yml" :> List(<<Dict(<<<<"setup", Dict(<<>>)>>>>)>>))

DefaultRoleDoc ==
    List(<<Dict(<<<<"setup", Dict(<<>>)>>>>)>>)

\* the files converted after a role: one that converts, and one whose
\* second task has two actions
AfterRoleDocs ==
    {List(<<Dict(<<<<"setup", Dict(<<>>)>>>>)>>),
     List(<<Dict(<<<<"name", Str("run")>>, <<"shell", Str("ls -l")>>>>),
            Dict(<<<<"name", Str("two")>>, <<"shell", Str("ls")>>,
                   <<"copy", Str("src=a dest=b")>>>>)>>)}

Init ==
    /\ \/ /\ argv = [role |-> "", file |-> "site.yml"]
          /\ \E doc \in FileDocs : fs = Files(doc, DefaultRoleDoc)
       \/ /\ argv \in {[role |-> "roles/web", file |-> ""],
                       [role |-> "roles/web", file |-> "site.yml"],
                       [role |-> "", file |-> ""],
                       [role |-> "", file |-> "missing.yml"]}
          /\ \E roleDoc \in RoleDocs, doc \in AfterRoleDocs :
                fs = Files(doc, roleDoc)
    /\ pc = "main_role"
    /\ stack = <<>>
    /\ stdout = <<>>
    /\ err = ""
    /\ call = NoCall

Spec ==
    Init /\ [][Next]_vars

(* ------------------------------------------------------------------ *)
(* The payload of a shell or command task                             *)
(* ------------------------------------------------------------------ *)
\* the lines of a payload
PayloadLines(job) ==
    Split(job.map[2][2].s, "\n")

\* the export lines expected of one scope (a play, a block, or the task):
\* one per entry of its environment, in the order of the entries
ExportsOf(scope) ==
    IF scope.t = "dict" /\ Has(scope.m, "environment")
    THEN LET e == Get(scope.m, "environment").m
         IN  [i \in 1..Len(e) |-> "export " \o e[i][1] \o "=\"" \o e[i][2].s \o "\";"]
    ELSE <<>>

\* the command text of a shell or command task: the string under the
\* module's key, or the cmd of the mapping there or under args
CommandOf(task, key) ==
    LET v == Get(task, key)
    IN  IF v.t = "str" THEN v.s
        ELSE IF Has(v.m, "cmd") THEN Get(v.m, "cmd").s
        ELSE Get(Get(task, "args").m, "cmd").s

\* the lines of a payload are an optional `cd <dir>;` line, the export
\* lines, and the command
OrderedPayload(lines, exports, command) ==
    LET n == Len(lines)
        k == Len(exports)
    IN  /\ n \in {k + 1, k + 2}
        /\ SubSeq(lines, n - k, n - 1) = exports
        /\ n = k + 2 => /\ StartsWith(lines[1], "cd ")
                        /\ SubSeq(lines[1], Len(lines[1]), Len(lines[1])) = ";"
        /\ lines[n] = command

\* the latest task translated is a shell or command task, and it was
\* translated
ShellCall ==
    call.made /\ call.err = "" /\ call.module \in {"shell", "command"}

\* C1: the single RUN payload of every shell or command task is, line by
\* line, an optional `cd <dir>;`, then the exports of the play's
\* environment, then those of the block's, then those of the task's own,
\* each in entry order and none removed as a duplicate, then the command
\* as the last line.
C1_ShellPayloadOrder ==
    ShellCall =>
        /\ Len(call.jobs) = 1
        /\ call.jobs[1].map[2][1] = "RUN"
        /\ OrderedPayload(PayloadLines(call.jobs[1]),
                          ExportsOf(call.kw.play) \o ExportsOf(call.kw.block)
                          \o ExportsOf(Dict(call.task)),
                          CommandOf(call.node, call.module))

\* C1 witness: play {A: 1}, block {B: 2}, task {A: 3}: A is exported
\* twice, the block's export in between
C1_Witness ==
    /\ ShellCall
    /\ ExportsOf(call.kw.play) = <<"export A=\"1\";">>
    /\ ExportsOf(call.kw.block) = <<"export B=\"2\";">>
    /\ ExportsOf(Dict(call.task)) = <<"export A=\"3\";">>
    /\ PayloadLines(call.jobs[1])
         = <<"export A=\"1\";", "export B=\"2\";", "export A=\"3\";", "ls -l">>

(* ------------------------------------------------------------------ *)
(* The comment of a task in a block of a play                         *)
(* ------------------------------------------------------------------ *)
\* the number of times sub occurs in s
Occurrences(s, sub) ==
    Len(Split(s, sub)) - 1

\* the text of s from the first occurrence of a on, up to the first
\* occurrence of b after it, or to the end for b = "" ("" when a does
\* not occur, or b does not occur after it)
Between(s, a, b) ==
    IF Find(s, a, 1) = 0 THEN ""
    ELSE LET from == SubSeq(s, Find(s, a, 1), Len(s))
         IN  IF b = "" THEN from
             ELSE IF Find(from, b, 1) = 0 THEN ""
             ELSE SubSeq(from, 1, Find(from, b, 1) - 1)

\* the latest task translated is a task of a block of a play, where the
\* play has the attribute become, the block the attribute when, and the
\* task the attribute when or register, none of which is translated
NestedCall ==
    /\ call.made /\ call.err = ""
    /\ call.kw.play # None /\ Has(call.kw.play.m, "become")
    /\ call.kw.block # None /\ Has(call.kw.block.m, "when")
    /\ Has(call.task, "when") \/ Has(call.task, "register")

\* the sections of a comment: three, the play's, then the block's, then
\* the task's, each with the attribute of its scope
ThreeSections(comment, task) ==
    /\ Occurrences(comment, "CONTEXT:") = 3
    /\ Occurrences(comment, "## PLAYBOOK-CONTEXT:") = 1
    /\ Occurrences(comment, "## BLOCK-CONTEXT:") = 1
    /\ Occurrences(comment, "TASK-CONTEXT:") = 1
    /\ Contains(Between(comment, "## PLAYBOOK-CONTEXT:", "## BLOCK-CONTEXT:"),
                "\nbecome: True\n")
    /\ Contains(Between(comment, "## BLOCK-CONTEXT:", "TASK-CONTEXT:"),
                "\nwhen: wanted\n")
    /\ Has(task, "when")
         => Contains(Between(comment, "TASK-CONTEXT:", ""), "\nwhen: ready\n")
    /\ Has(task, "register")
         => Contains(Between(comment, "TASK-CONTEXT:", ""), "\nregister: made\n")

\* C2: for a task in a block of a play, each of the three with one
\* attribute that is not translated, the comment of every directive of
\* the task has exactly three sections, the play's, then the block's,
\* then the task's, each listing the attribute of its scope.
C2_CommentSectionsInOrder ==
    NestedCall =>
        /\ Len(call.jobs) > 0
        /\ \A i \in 1..Len(call.jobs) : ThreeSections(call.jobs[i].comment, call.task)

\* C2 witness: a file task in a block of a play that gives several
\* directives, each with the three sections
C2_Witness ==
    /\ NestedCall
    /\ Len(call.jobs) > 1
    /\ call.jobs[2].comment
         = "\n## PLAYBOOK-CONTEXT:\nbecome: True\n## BLOCK-CONTEXT:\nwhen: wanted\n"
           \o "TASK-CONTEXT:\nregister: made\n"

(* ------------------------------------------------------------------ *)
(* The task of a module without a rule                                *)
(* ------------------------------------------------------------------ *)
\* the key a task declares its module under, when that is a key of the
\* module's name, short or qualified ("" for action, local_action and
\* for a task whose action cannot be told)
ModuleKey(task) ==
    IF Has(task, "action") \/ Has(task, "local_action") THEN ""
    ELSE get_task_action(task).action

\* the module a key names: the key itself, or what follows the last dot
\* of a qualified key
ModuleNamed(key) ==
    Split(key, ".")[Len(Split(key, "."))]

\* the latest task translated declares, under a key of its own, a module
\* that has no rule; a block or a reference to a file of tasks is no
\* module
UnsupportedCall ==
    /\ call.made
    /\ ModuleKey(call.task) # ""
    /\ ModuleNamed(ModuleKey(call.task))
         \notin TaskMethods
                 \cup {"block", "include", "include_tasks", "import_tasks"}

\* every key of the task, with its value, is in the text as YAML
TaskAsGiven(text, task) ==
    \A i \in 1..Len(task) : Contains(text, YamlLines(<<task[i]>>, ""))

\* C3: a task of a module without a rule gives exactly one directive, an
\* ECHO whose message names the module, and the comment of the directive
\* has the whole task as it was given, every key with its value.
C3_EchoCarriesOriginalTask ==
    UnsupportedCall =>
        /\ call.err = ""
        /\ Len(call.jobs) = 1
        /\ Keys(call.jobs[1].map) = <<"NAME", "ECHO">>
        /\ Contains(call.jobs[1].map[2][2].s,
                    "'" \o ModuleNamed(ModuleKey(call.task)) \o "'")
        /\ TaskAsGiven(call.jobs[1].comment, call.task)

\* what does hold: the one ECHO directive, with the task as normalised
C3_OneEcho ==
    UnsupportedCall =>
        /\ call.err = ""
        /\ Len(call.jobs) = 1
        /\ Keys(call.jobs[1].map) = <<"NAME", "ECHO">>
        /\ TaskAsGiven(call.jobs[1].comment, call.node)

\* C3 case: the task community.general.ini_file is echoed, and no line of
\* the comment has the key the task was given under
C3_QualifiedKeyLost ==
    /\ UnsupportedCall
    /\ Has(call.task, "community.general.ini_file")
    /\ Len(call.jobs) = 1
    /\ ~Contains(call.jobs[1].comment, "community.general.ini_file")

(* ------------------------------------------------------------------ *)
(* What a translated task leaves of its attributes                    *)
(* ------------------------------------------------------------------ *)
\* the latest task translated is a task of a module with a rule, and it
\* was translated
SupportedCall ==
    call.made /\ call.err = "" /\ call.module \in TaskMethods

\* the text is in the payload of one of the jobs
InPayload(jobs, text) ==
    \E i \in 1..Len(jobs) : Contains(jobs[i].map[2][2].s, text)

\* the line `key: ...` is in the TASK-CONTEXT section of the comment of
\* every job, and there is a job to carry it
InTaskContext(jobs, line) ==
    /\ Len(jobs) > 0
    /\ \A i \in 1..Len(jobs) :
          Contains(Between(jobs[i].comment, "TASK-CONTEXT:", ""), line)

\* every entry of a mapping is in a payload by its value, or in the
\* TASK-CONTEXT by its key and value
EntriesAudited(jobs, entries) ==
    \A i \in 1..Len(entries) :
        \/ InPayload(jobs, PyStr(entries[i][2]))
        \/ InTaskContext(jobs, entries[i][1] \o ": " \o YamlScalar(entries[i][2]))

\* the keys of a task that stand next to the module's key and that no
\* rule reads
Siblings(task, module) ==
    SelectSeq(task, LAMBDA p : p[1] \notin {module, "name", "args", "environment"})

\* the modules of task_shell, which writes the options of the mapping
\* under the module's key into the payload as they are given
ShellModules ==
    {"shell", "command"}

\* C4: of a translated task of a module with a rule, every attribute that
\* is in no payload is in the TASK-CONTEXT of the comment of the
\* directives: the keys next to the module's key, the entries of args,
\* and (stated for shell and command, whose payload has the options as
\* they are given) the options of the mapping under the module's key.
C4_NothingLostSilently ==
    SupportedCall =>
        /\ \A i \in 1..Len(Siblings(call.node, call.module)) :
              InTaskContext(call.jobs, "\n" \o Siblings(call.node, call.module)[i][1] \o ":")
        /\ Has(call.node, "args") /\ Get(call.node, "args").t = "dict"
              => EntriesAudited(call.jobs, Get(call.node, "args").m)
        /\ call.module \in ShellModules /\ Get(call.node, call.module).t = "dict"
              => EntriesAudited(call.jobs, Get(call.node, call.module).m)

\* what does hold: the keys next to the module's key are in the
\* TASK-CONTEXT
C4_SiblingsAudited ==
    SupportedCall =>
        \A i \in 1..Len(Siblings(call.node, call.module)) :
            InTaskContext(call.jobs, "\n" \o Siblings(call.node, call.module)[i][1] \o ":")

\* C4 case: a shell task with args {creates: /done} is translated and
\* /done is in no payload and in no comment
C4_ArgsEntryLost ==
    /\ SupportedCall
    /\ call.module = "shell"
    /\ Has(call.node, "args")
    /\ Has(Get(call.node, "args").m, "creates")
    /\ ~InPayload(call.jobs, "/done")
    /\ \A i \in 1..Len(call.jobs) : ~Contains(call.jobs[i].comment, "/done")

(* ------------------------------------------------------------------ *)
(* Qualified module names, and resolving twice                        *)
(* ------------------------------------------------------------------ *)
\* the task with one key renamed where it stands
Declared(task, key, short) ==
    [i \in 1..Len(task) |-> IF task[i][1] = key THEN <<short, task[i][2]>> ELSE task[i]]

\* the kinds, payloads and names of a sequence of directives, in order
Maps(jobs) ==
    [i \in 1..Len(jobs) |-> jobs[i].map]

\* the latest task translated declares a module with a rule under a
\* qualified key
QualifiedCall ==
    /\ call.made
    /\ Contains(ModuleKey(call.task), ".")
    /\ ModuleNamed(ModuleKey(call.task)) \in TaskMethods

\* what the task gives and what the task declared under the short key
\* gives are the same
SameAsShort(short) ==
    /\ call.module = short.module
    /\ call.err = short.err
    /\ Maps(call.jobs) = Maps(short.jobs)

\* C5: a task that declares a module with a rule under a qualified key
\* (ns.coll.m) resolves to m and gives the directives, kinds, payloads
\* and names in order, of the same task declared under the short key m.
C5_QualifiedKeySameAsShort ==
    QualifiedCall =>
        /\ call.module = ModuleNamed(ModuleKey(call.task))
        /\ SameAsShort(AnsibleTask_parse(
                           Declared(call.task, ModuleKey(call.task),
                                    ModuleNamed(ModuleKey(call.task))),
                           call.kw))

\* C5 witness: ansible.builtin.copy with a mode is translated to a COPY
C5_Witness ==
    /\ QualifiedCall
    /\ Has(call.task, "ansible.builtin.copy")
    /\ call.err = ""
    /\ Len(call.jobs) = 1
    /\ call.jobs[1].map[2][1] = "COPY"
    /\ Contains(call.jobs[1].map[2][2].s, "--chmod 0644")

\* the latest task translated had its action resolved
ResolvedCall ==
    call.made /\ resolve(call.task).err = ""

\* a resolution gives this action and leaves this node
Resolves(r, module, node) ==
    r.err = "" /\ r.module = module /\ r.task = node

\* C6: once a task has been resolved and normalised (its qualified key
\* renamed, the string under it made a mapping), resolving the node again
\* gives the same action and leaves the node as it is.
C6_ResolveIdempotent ==
    ResolvedCall => Resolves(resolve(call.node), call.module, call.node)

\* C6 witness: the task community.general.yum: "name=vim state=latest" was
\* renamed and its string made a mapping
C6_Witness ==
    /\ ResolvedCall
    /\ Has(call.task, "community.general.yum")
    /\ call.node = <<<<"yum", Dict(<<<<"name", Str("vim")>>,
                                     <<"state", Str("latest")>>>>)>>>>
    /\ call.module = "yum"

(* ------------------------------------------------------------------ *)
(* A file of a shell task and a copy task                             *)
(* ------------------------------------------------------------------ *)
\* the file converted is a list of two tasks: a shell task with the
\* working directory /tmp, and a copy task of a source to a destination
\* with mode "0644"
TwoTaskFile ==
    /\ argv.file \in DOMAIN fs
    /\ fs[argv.file].t = "list"
    /\ Len(fs[argv.file].m) = 2
    /\ LET first == Elems(fs[argv.file])[1].m
           second == Elems(fs[argv.file])[2].m
       IN  /\ Has(first, "shell") /\ Has(first, "args")
           /\ GetOr(Get(first, "args").m, "chdir", None) = Str("/tmp")
           /\ Has(second, "copy") /\ Get(second, "copy").t = "dict"
           /\ Keys(Get(second, "copy").m) = <<"src", "dest", "mode">>
           /\ Get(Get(second, "copy").m, "mode") = Str("0644")

\* the document printed is two jobs: a RUN that starts with `cd /tmp;`
\* and a COPY with `--chmod 0644`
RunThenCopy(doc) ==
    /\ Len(doc) = 2
    /\ doc[1].kind = "job" /\ doc[2].kind = "job"
    /\ doc[1].job.map[2][1] = "RUN"
    /\ StartsWith(doc[1].job.map[2][2].s, "cd /tmp;")
    /\ doc[2].job.map[2][1] = "COPY"
    /\ Contains(doc[2].job.map[2][2].s, "--chmod 0644")

\* C7: the conversion of a file of two tasks, a shell task with the
\* working directory /tmp and a copy task with mode "0644", raises
\* nothing and prints exactly two directives in that order: a RUN whose
\* payload starts with `cd /tmp;` and a COPY whose payload has
\* `--chmod 0644`.
C7_TwoTaskFile ==
    TwoTaskFile =>
        /\ pc # "raised"
        /\ pc = "exit" => Len(stdout) = 1 /\ RunThenCopy(stdout[1])

\* C7 witness: the file has been converted and printed
C7_Witness ==
    /\ TwoTaskFile
    /\ pc = "exit"
    /\ Len(stdout) = 1
    /\ stdout[1][1].job.map[2][2].s = "cd /tmp;\nls -l"
    /\ stdout[1][2].job.map[2][2].s = "--chmod 0644 a.conf /etc/a.conf"

(* ------------------------------------------------------------------ *)
(* Package tasks                                                      *)
(* ------------------------------------------------------------------ *)
\* the latest task translated is a task of dnf, yum or package that was
\* translated
PackageCall ==
    call.made /\ call.err = "" /\ call.module \in {"dnf", "yum", "package"}

\* whether the task asks for the latest of every package
AllLatest(pkg) ==
    /\ GetOr(pkg, "name", None) = Str("*")
    /\ GetOr(pkg, "state", None) = Str("latest")

\* the kinds of a sequence of directives, in order
Kinds(jobs) ==
    [i \in 1..Len(jobs) |-> jobs[i].map[2][1]]

\* C8: a task of dnf, yum or package with name `*` and state latest gives
\* exactly one directive, a RUN of `dnf update -y` that has the exclude
\* when there is one, and no DNF; any other name and state give exactly
\* one DNF and no RUN.
C8_UpdateAllIsOneRun ==
    PackageCall =>
        IF AllLatest(Get(call.node, call.module).m)
        THEN /\ Kinds(call.jobs) = <<"RUN">>
             /\ StartsWith(call.jobs[1].map[2][2].s, "dnf update -y")
             /\ Has(Get(call.node, call.module).m, "exclude")
                   => Contains(call.jobs[1].map[2][2].s, "--exclude \"kernel*\"")
        ELSE Kinds(call.jobs) = <<"DNF">>

\* C8 witness: yum with name `*`, state latest and an exclude
C8_Witness ==
    /\ PackageCall
    /\ call.module = "yum"
    /\ AllLatest(Get(call.node, "yum").m)
    /\ call.jobs[1].map[2] = <<"RUN", Str("dnf update -y --exclude \"kernel*\"")>>

\* C8 witness of the other side: name `*` in a state that is not latest
\* is one DNF
C8_StarNotLatest ==
    /\ PackageCall
    /\ GetOr(Get(call.node, call.module).m, "name", None) = Str("*")
    /\ GetOr(Get(call.node, call.module).m, "state", None) = Str("removed")
    /\ call.jobs[1].map[2] = <<"DNF", Str("--absent *")>>

(* ------------------------------------------------------------------ *)
(* A directory made with its mode and owner, recursively              *)
(* ------------------------------------------------------------------ *)
\* the latest task translated is a file task of state directory with
\* recurse true, a mode and an owner, and no SELinux attribute
DirectoryCall ==
    /\ call.made /\ call.module = "file"
    /\ Get(call.node, "file").t = "dict"
    /\ LET f == Get(call.node, "file").m
       IN  /\ GetOr(f, "state", None) = Str("directory")
           /\ GetOr(f, "recurse", None) = Bool(TRUE)
           /\ Has(f, "mode") /\ Has(f, "owner") /\ Has(f, "path")
           /\ ~Has(f, "selevel") /\ ~Has(f, "setype") /\ ~Has(f, "seuser")

\* s ends with p
EndsWith(s, p) ==
    Len(s) >= Len(p) /\ SubSeq(s, Len(s) - Len(p) + 1, Len(s)) = p

\* a WORKDIR with the chmod and chown flags and the path, then a RUN of
\* a recursive chmod of the path, then a RUN of a recursive chown of it
WorkdirChmodChown(jobs, path) ==
    /\ Kinds(jobs) = <<"WORKDIR", "RUN", "RUN">>
    /\ StartsWith(jobs[1].map[2][2].s, "--chmod 0")
    /\ Contains(jobs[1].map[2][2].s, " --chown ")
    /\ EndsWith(jobs[1].map[2][2].s, " " \o path)
    /\ StartsWith(jobs[2].map[2][2].s, "chmod -R 0")
    /\ EndsWith(jobs[2].map[2][2].s, " " \o path)
    /\ StartsWith(jobs[3].map[2][2].s, "chown -R ")
    /\ EndsWith(jobs[3].map[2][2].s, " " \o path)

\* C9: a file task of state directory with recurse true, a mode and an
\* owner (and no SELinux attribute) gives exactly three directives in
\* this order: a WORKDIR with the chmod and chown flags and the path, a
\* RUN of the recursive chmod of the path, a RUN of the recursive chown.
C9_DirectoryThreeDirectives ==
    DirectoryCall =>
        /\ call.err = ""
        /\ WorkdirChmodChown(call.jobs, Get(Get(call.node, "file").m, "path").s)

\* what does hold: the three directives when the mode is not zero
C9_NonZeroMode ==
    DirectoryCall /\ Get(Get(call.node, "file").m, "mode") # Str("0000") =>
        /\ call.err = ""
        /\ WorkdirChmodChown(call.jobs, Get(Get(call.node, "file").m, "path").s)

\* C9 case: with the mode "0000" there are two directives, and neither
\* has a chmod
C9_ModeZeroDropped ==
    /\ DirectoryCall
    /\ Get(Get(call.node, "file").m, "mode") = Str("0000")
    /\ call.err = ""
    /\ Kinds(call.jobs) = <<"WORKDIR", "RUN">>
    /\ ~InPayload(call.jobs, "chmod")

(* ------------------------------------------------------------------ *)
(* An exception ends the conversion                                   *)
(* ------------------------------------------------------------------ *)
\* the number of documents printed before the conversion that raised:
\* the role's, when it is the file's conversion that raised
PrintedBefore ==
    IF argv.role # "" /\ (stack = <<>> \/ stack[1].fn = "parse_file") THEN 1 ELSE 0

\* C10: an exception raised while a task is translated ends the
\* conversion of the file or role: it is the exception main() ends with,
\* nothing runs after it, and nothing of that conversion, of the tasks
\* before or after, is printed.
C10_ErrorAbortsConversion ==
    /\ call.made /\ call.err # ""
          => pc = "raised" /\ err = call.err /\ Len(stdout) = PrintedBefore
    /\ pc = "raised" => err # "" /\ Len(stdout) = PrintedBefore /\ ~ENABLED Next

\* C10 witness: the second task of a list raised after the first had
\* given its directives, which are in the list's result and not printed
C10_Witness ==
    /\ pc = "raised"
    /\ call.made /\ call.err = "Exception: more than one action"
    /\ Top.i = 2 /\ Len(Top.result) > 0
    /\ stdout = <<>>

\* C10 witness: the file's conversion raised after the role's was printed
C10_AfterRole ==
    /\ pc = "raised"
    /\ call.made /\ call.err # ""
    /\ stack[1].fn = "parse_file"
    /\ Len(stdout) = 1

(* ------------------------------------------------------------------ *)
(* A task declared through action or local_action                     *)
(* ------------------------------------------------------------------ *)
\* the key of the two the task declares its module through
ActionKey(task) ==
    IF Has(task, "action") THEN "action" ELSE "local_action"

\* the latest task translated declares its module through action or
\* local_action, as a string `<module> k=v ...` or as a mapping with a
\* module key
ActionCall ==
    /\ call.made
    /\ Has(call.task, "action") \/ Has(call.task, "local_action")

\* the module such a task names
ActionModule(task) ==
    LET v == Get(task, ActionKey(task))
    IN  IF v.t = "dict" THEN Get(v.m, "module").s ELSE SplitWords(v.s)[1]

\* the equivalent task, declared with the module's name as its key: the
\* rest of the string, or the mapping without its module key, under it
AsModuleKey(task) ==
    LET v == Get(task, ActionKey(task))
    IN  [i \in 1..Len(task) |->
            IF task[i][1] # ActionKey(task) THEN task[i]
            ELSE <<ActionModule(task),
                   IF v.t = "dict" THEN Dict(Pop(v.m, "module"))
                   ELSE Str(Join(" ", Tail(SplitWords(v.s))))>>]

\* C11: a task that declares its module through action or local_action
\* resolves to that module and is translated by that module's rule: it
\* raises nothing and gives the directives, kinds, payloads and names in
\* order, of the equivalent task declared with the module's name as its
\* key.
C11_ActionSameAsModuleKey ==
    ActionCall =>
        /\ call.err = ""
        /\ call.module = ActionModule(call.task)
        /\ Maps(call.jobs)
             = Maps(AnsibleTask_parse(AsModuleKey(call.task), call.kw).jobs)

\* what does hold: the action is told, and the task then raises KeyError
\* where its value is looked up under the module's name
C11_ActionToldThenKeyError ==
    ActionCall =>
        /\ get_task_action(call.task).err = ""
        /\ get_task_action(call.task).action = ActionModule(call.task)
        /\ call.err = "KeyError"
        /\ call.jobs = <<>>

\* C11 case: `action: copy src=a dest=/etc/a` ended the conversion with
\* KeyError, while the same task under the key copy gives one COPY
C11_ActionKeyError ==
    /\ ActionCall
    /\ GetOr(call.task, "action", None) = Str("copy src=a dest=/etc/a")
    /\ pc = "raised" /\ err = "KeyError"
    /\ AsModuleKey(call.task)
         = <<<<"name", Str("act")>>, <<"copy", Str("src=a dest=/etc/a")>>>>
    /\ Maps(AnsibleTask_parse(AsModuleKey(call.task), call.kw).jobs)
         = <<<<<<"NAME", Str("act")>>, <<"COPY", Str("a /etc/a")>>>>>>

(* ------------------------------------------------------------------ *)
(* What a block or an include with an environment returns             *)
(* ------------------------------------------------------------------ *)
\* the kind and the payload of each directive, in order
KindPayload(jobs) ==
    [i \in 1..Len(jobs) |-> <<jobs[i].map[2][1], jobs[i].map[2][2].s>>]

\* one ENV `key value` per entry of the scope's environment, in the
\* order of the entries
EnvPairs(scope) ==
    LET e == Get(scope, "environment").m
    IN  [i \in 1..Len(e) |-> <<"ENV", e[i][1] \o " " \o PyStr(e[i][2])>>]

\* the element a list is at: the block or include whose nested list is
\* the next call on the stack
ScopeOf(d) ==
    stack[d].items[stack[d].i].m

\* this step is the return of the nested list of a block or include
\* that has an environment to the list the block or include stands in
ScopeWithEnvReturns ==
    /\ Depth > 1 /\ Top.fn = "AnsibleTasksList.parse" /\ Top.via # ""
    /\ Top.i > Len(Top.items)
    /\ Has(ScopeOf(Depth - 1), "environment")
    /\ Len(stack') = Depth - 1

\* what the caller's result was extended with in this step
Extension ==
    SubSeq(stack'[Depth - 1].result, Len(stack[Depth - 1].result) + 1,
           Len(stack'[Depth - 1].result))

\* C12: what a block (and likewise an include) with an environment
\* returns to the list it stands in starts with one ENV directive per
\* entry of the environment, in the order of the entries, and goes on
\* with the flattened directives of the nested tasks.
C12_ScopeStartsWithEnv ==
    [][ScopeWithEnvReturns =>
          KindPayload(Extension)
            = EnvPairs(ScopeOf(Depth - 1)) \o KindPayload(Top.result)]_vars

\* what does hold: the directives of the nested tasks are all that is
\* returned
C12_ScopeReturnsNestedOnly ==
    [][ScopeWithEnvReturns => Extension = Top.result]_vars

\* C12 case: a play without an environment whose one task is a block
\* with the environment B=2 around a shell task has been converted, and
\* the play's jobs are the RUN alone, which exports B, with no ENV
\* directive
C12_BlockEnvDropped ==
    /\ pc = "exit" /\ argv.file = "site.yml" /\ Len(stdout) = 1
    /\ fs[argv.file].t = "list" /\ Len(fs[argv.file].m) = 1
    /\ LET play == Elems(fs[argv.file])[1].m
       IN  /\ Has(play, "hosts") /\ Has(play, "tasks")
           /\ ~Has(play, "environment")
           /\ Len(Get(play, "tasks").m) = 1
           /\ LET block == Elems(Get(play, "tasks"))[1].m
              IN  /\ IsBlock(block)
                  /\ GetOr(block, "environment", None) = Dict(<<<<"B", Str("2")>>>>)
                  /\ Has(Elems(Get(block, "block"))[1].m, "shell")
    /\ Len(stdout[1]) = 1
    /\ Len(stdout[1][1].jobs) = 1
    /\ stdout[1][1].jobs[1].map[2][1] = "RUN"
    /\ Contains(stdout[1][1].jobs[1].map[2][2].s, "export B=\"2\";")

(* ------------------------------------------------------------------ *)
(* The jobs of a play                                                 *)
(* ------------------------------------------------------------------ *)
\* the directives of a list of tasks, one element after the other and
\* depth first: those of a plain task, those of the tasks of a block,
\* those of the tasks of the file an include names
RECURSIVE Flattened(_, _, _)
Flattened(items, kw, prefix) ==
    IF Len(items) = 0 THEN <<>>
    ELSE LET task == items[1].m
             file == PyOr(GetOr(task, "include", None),
                          GetOr(task, "include_tasks", None)).s
             path == IF prefix # "" THEN os_path_join(prefix, file) ELSE file
             this == IF IsBlock(task)
                     THEN Flattened(
                              Elems(Get(task, "block")),
                              WithScope(kw, "block",
                                        Dict(Put(task, "context",
                                                 Str(AnsibleBlock_add_context(task))))),
                              "")
                     ELSE IF IsInclude(task)
                     THEN Flattened(
                              Elems(fs[path]),
                              WithScope(kw, "include",
                                        Dict(Put(task, "context",
                                                 Str(AnsibleIncludeTasks_add_context(
                                                         task))))),
                              "")
                     ELSE AnsibleTask_parse(task, kw).jobs
         IN  this \o Flattened(Tail(items), kw, prefix)

\* the directives of the task lists of a play, in the order the play
\* has them
RECURSIVE FlattenedLists(_, _)
FlattenedLists(keys, play) ==
    IF Len(keys) = 0 THEN <<>>
    ELSE (IF keys[1] \in PlayTaskKeys
          THEN Flattened(Elems(Get(play.m, keys[1])), WithScope(NoKw, "play", play), "")
          ELSE <<>>)
         \o FlattenedLists(Tail(keys), play)

\* what comes first in a play's jobs: one ENV per entry of the play's
\* environment, one ARG per entry of its vars, one FACTER when
\* gather_facts is truthy
PlayLead(play) ==
    (IF Has(play, "environment") THEN EnvPairs(play) ELSE <<>>)
    \o (IF Has(play, "vars")
        THEN [i \in 1..Len(Get(play, "vars").m) |->
                <<"ARG", Get(play, "vars").m[i][1] \o " "
                         \o PyStr(Get(play, "vars").m[i][2])>>]
        ELSE <<>>)
    \o (IF Has(play, "gather_facts") /\ Truthy(Get(play, "gather_facts"))
        THEN <<<<"FACTER", "">>>> ELSE <<>>)

\* the jobs are the lead and then the directives of the task lists
LeadThenTasks(jobs, play) ==
    /\ Len(jobs) >= Len(PlayLead(play.m))
    /\ KindPayload(SubSeq(jobs, 1, Len(PlayLead(play.m)))) = PlayLead(play.m)
    /\ SubSeq(jobs, Len(PlayLead(play.m)) + 1, Len(jobs))
         = FlattenedLists(Keys(play.m), play)

\* AnsiblePlay.parse has gone through the keys of the play
PlayDone ==
    /\ Depth > 0 /\ Top.fn = "AnsiblePlay.parse"
    /\ Top.i > Len(Top.items)

\* the file converted was a list of plays, and its document is printed
PlaysPrinted ==
    /\ pc = "exit" /\ argv.file \in DOMAIN fs
    /\ fs[argv.file].t = "list"
    /\ \A i \in 1..Len(fs[argv.file].m) : Has(Elems(fs[argv.file])[i].m, "hosts")

\* C13: the jobs of a play are, in order, one ENV directive per entry of
\* the play's environment, one ARG directive per entry of its vars, one
\* FACTER directive if and only if gather_facts is truthy, and then the
\* flattened directives of the play's task lists; the play's entry in
\* the document has targets if and only if hosts is not `all`.
C13_PlayJobsInOrder ==
    /\ PlayDone => LeadThenTasks(Top.result, Top.scope)
    /\ PlaysPrinted =>
          LET doc == stdout[Len(stdout)]
          IN  /\ Len(doc) = Len(fs[argv.file].m)
              /\ \A i \in 1..Len(doc) :
                    LET play == Elems(fs[argv.file])[i].m
                    IN  /\ doc[i].targets
                             = IF Get(play, "hosts") = Str("all") THEN <<>>
                               ELSE <<Get(play, "hosts")>>
                        /\ Len(doc[i].jobs) >= Len(PlayLead(play))
                        /\ KindPayload(SubSeq(doc[i].jobs, 1, Len(PlayLead(play))))
                             = PlayLead(play)

\* C13 witness: a play for all hosts with an environment of two entries,
\* two vars and gather_facts has gone through its keys; its jobs are
\* ENV, ENV, ARG, ARG, FACTER and the FACTER of its setup task
C13_Witness ==
    /\ PlayDone
    /\ Get(Top.scope.m, "hosts") = Str("all")
    /\ Has(Top.scope.m, "pre-tasks")
    /\ KindPayload(Top.result)
         = <<<<"ENV", "A 1">>, <<"ENV", "B 2">>, <<"ARG", "port 80">>,
             <<"ARG", "user www">>, <<"FACTER", "">>, <<"FACTER", "">>>>

\* C13 witness: a play for the hosts web is printed with its targets
C13_Targets ==
    /\ PlaysPrinted
    /\ stdout[Len(stdout)][1].targets = <<Str("web")>>
    /\ Len(stdout[Len(stdout)][1].jobs) > 0

(* ------------------------------------------------------------------ *)
(* The copy tasks that are refused                                    *)
(* ------------------------------------------------------------------ *)
\* the latest task translated is a copy task with a mapping of arguments
CopyCall ==
    /\ call.made /\ call.module = "copy"
    /\ Has(call.node, "copy")
    /\ Get(call.node, "copy").t = "dict"

\* the arguments of the copy task
CopyArgs ==
    Get(call.node, "copy").m

\* the task asks for inline content instead of a source path
InlineContent(c) ==
    Has(c, "content") /\ Truthy(Get(c, "content")) /\ ~Has(c, "src")

\* the task has force=false
NoForce(c) ==
    Has(c, "force") /\ Get(c, "force") = Bool(FALSE)

\* C14: a copy task that asks for inline content instead of a source
\* path, and a copy task with force=false, with or without remote_src,
\* ends with an exception and gives no directive.
C14_ContentOrNoForceFails ==
    CopyCall /\ (InlineContent(CopyArgs) \/ NoForce(CopyArgs)) =>
        /\ call.err # ""
        /\ call.jobs = <<>>
        /\ pc = "raised"

\* what does hold: inline content is refused, and force=false is
\* refused when the source is not on the remote host
C14_ContentOrLocalNoForceFails ==
    /\ CopyCall
    /\ \/ InlineContent(CopyArgs)
       \/ NoForce(CopyArgs) /\ ~Truthy(GetOr(CopyArgs, "remote_src", None))
    => /\ call.err = "NotImplementedError"
       /\ call.jobs = <<>>
       /\ pc = "raised"

\* C14 case: the copy of a to /etc/a with force=false and remote_src is
\* translated to `cp -r a /etc/a`
C14_RemoteForceIgnored ==
    /\ CopyCall
    /\ NoForce(CopyArgs)
    /\ GetOr(CopyArgs, "remote_src", None) = Bool(TRUE)
    /\ call.err = ""
    /\ KindPayload(call.jobs) = <<<<"RUN", "cp -r a /etc/a">>>>

(* ------------------------------------------------------------------ *)
(* A block in a block, an include in an included file                 *)
(* ------------------------------------------------------------------ *)
\* the list being walked is at a block and is itself inside a block
BlockInBlock ==
    /\ Depth > 0 /\ Top.fn = "AnsibleTasksList.parse"
    /\ Top.i <= Len(Top.items)
    /\ IsBlock(Top.items[Top.i].m)
    /\ Top.kw.block # None

\* the list being walked is at an include of a file that is there, and
\* is itself the list of an included file, or inside one
IncludeInIncluded ==
    /\ Depth > 0 /\ Top.fn = "AnsibleTasksList.parse"
    /\ Top.i <= Len(Top.items)
    /\ ~IsBlock(Top.items[Top.i].m)
    /\ Has(Top.items[Top.i].m, "include") \/ Has(Top.items[Top.i].m, "include_tasks")
    /\ Top.kw.include # None
    /\ PyOr(GetOr(Top.items[Top.i].m, "include", None),
            GetOr(Top.items[Top.i].m, "include_tasks", None)).s \in DOMAIN fs

\* C15: a block nested in a block, and an include reached from inside
\* an included file, convert: the walk goes on into the nested scope and
\* its tasks' directives join the one sequence; no exception is raised
\* at the nested scope.
C15_NestedScopesConvert ==
    BlockInBlock \/ IncludeInIncluded => pc # "raised"

\* what does hold: no scope is ever walked inside a scope of its kind
C15_NoScopeInsideItsKind ==
    \A d \in 2..Depth :
        /\ stack[d].via = "block" => stack[d - 1].kw.block = None
        /\ stack[d].via = "include" => stack[d - 1].kw.include = None

\* C15 case: the block inside a block ended the conversion of a play
\* with TypeError, three calls deep, with nothing printed
C15_BlockInBlockRaises ==
    /\ BlockInBlock
    /\ pc = "raised" /\ err = "TypeError"
    /\ stack[1].fn = "parse_file" /\ stack[2].fn = "AnsiblePlay.parse"
    /\ Top.via = "block"
    /\ Has(Elems(Get(Top.items[Top.i].m, "block"))[1].m, "setup")
    /\ stdout = <<>>

\* C15 case: the include of more.yml inside the included outer.yml ended
\* the conversion with TypeError
C15_IncludeInIncludedRaises ==
    /\ IncludeInIncluded
    /\ pc = "raised" /\ err = "TypeError"
    /\ Top.via = "include"
    /\ Top.items = Elems(fs["outer.yml"])
    /\ stdout = <<>>

(* ------------------------------------------------------------------ *)
(* import_tasks                                                       *)
(* ------------------------------------------------------------------ *)
\* the file an element names under import_tasks, seen from the list
\* the element stands in
ImportedPath(d) ==
    IF stack[d].prefix # ""
    THEN os_path_join(stack[d].prefix, Get(ScopeOf(d), "import_tasks").s)
    ELSE Get(ScopeOf(d), "import_tasks").s

\* the list being walked is at an element that names a file of tasks
\* under import_tasks (and under no other key of the kind); the file is
\* there, and the list is not inside an included file
ImportAt ==
    /\ Depth > 0 /\ Top.fn = "AnsibleTasksList.parse"
    /\ Top.i <= Len(Top.items)
    /\ Has(ScopeOf(Depth), "import_tasks")
    /\ ~IsBlock(ScopeOf(Depth))
    /\ ~Has(ScopeOf(Depth), "include") /\ ~Has(ScopeOf(Depth), "include_tasks")
    /\ Top.kw.include = None
    /\ ImportedPath(Depth) \in DOMAIN fs

\* C16: an element of a task list that names a file through
\* import_tasks is handled as an include: the file is resolved and
\* loaded and its tasks are walked, as for include and include_tasks;
\* the conversion does not end at the element.
C16_ImportHandledAsInclude ==
    ImportAt => pc # "raised"

\* what does hold: every list of an included file that is walked was
\* named under include or include_tasks
C16_WalkedFilesAreIncludes ==
    \A d \in 2..Depth :
        stack[d].via = "include" =>
            Has(ScopeOf(d - 1), "include") \/ Has(ScopeOf(d - 1), "include_tasks")

\* C16 case: `import_tasks: more.yml` in the tasks of a play ended the
\* conversion with TypeError, though more.yml is there
C16_ImportRaises ==
    /\ ImportAt
    /\ Get(ScopeOf(Depth), "import_tasks") = Str("more.yml")
    /\ stack[Depth - 1].fn = "AnsiblePlay.parse"
    /\ pc = "raised" /\ err = "TypeError"
    /\ stdout = <<>>

(* ------------------------------------------------------------------ *)
(* Blocks and includes at the top level of a file                     *)
(* ------------------------------------------------------------------ *)
\* the latest element handed to AnsibleTask is a block or names a file
\* of tasks
ScopeAsTask ==
    call.made /\ (IsBlock(call.task) \/ IsInclude(call.task))

\* C17: from every entry point (a play of a file, a file that is a bare
\* list of tasks, a role) an element that is a block or an include is
\* classified and flattened by the walker and never handed to the
\* translation of a single task; so the conversion of a bare list does
\* not end at a block.
C17_ScopesNeverReachResolver ==
    /\ ~ScopeAsTask
    /\ pc = "raised" /\ Depth = 1 /\ Top.fn = "parse_file" /\ Top.i <= Len(Top.items)
          => ~IsBlock(ScopeOf(1))

\* what does hold: inside a play and inside a role no block and no
\* include is handed to the translation of a single task; only
\* parse_file does so, and the conversion ends there
C17_OnlyTopLevelOfFile ==
    ScopeAsTask =>
        /\ Depth = 1 /\ Top.fn = "parse_file"
        /\ call.task = ScopeOf(1)
        /\ pc = "raised" /\ call.err = "ValueError"

\* C17 case: a file that is a list of one block, with no hosts, ended
\* with the ValueError of AnsibleTask.parse and nothing is printed
C17_TopLevelBlockRaises ==
    /\ ScopeAsTask
    /\ IsBlock(call.task)
    /\ call.module = "block" /\ call.err = "ValueError"
    /\ Depth = 1 /\ Top.fn = "parse_file" /\ Top.i = 1 /\ Len(Top.items) = 1
    /\ pc = "raised" /\ stdout = <<>>

(* ------------------------------------------------------------------ *)
(* The include prefix of a role                                       *)
(* ------------------------------------------------------------------ *)
\* the file an element names under include or include_tasks
IncludedFile(d) ==
    PyOr(GetOr(ScopeOf(d), "include", None),
         GetOr(ScopeOf(d), "include_tasks", None)).s

\* the call at depth d walks the tasks of a file included from a task
\* file of the role, whose directory is the prefix of the call at
\* depth 2
IncludedInRole(d) ==
    /\ d > 2 /\ d <= Depth
    /\ stack[1].fn = "role_parse"
    /\ stack[d].via = "include"

\* the tasks walked at depth d are those of the file of that name in
\* the directory of the role's task file
FromRoleDirectory(d) ==
    /\ os_path_join(stack[2].prefix, IncludedFile(d - 1)) \in DOMAIN fs
    /\ stack[d].items
         = Elems(fs[os_path_join(stack[2].prefix, IncludedFile(d - 1))])

\* C18: while a role is converted, the directory of the task file being
\* processed is the prefix of every include under it: an include inside
\* a block of the task file names a file of that directory, as an
\* include at the top level of the task file does.
C18_PrefixCarriedDown ==
    \A d \in 1..Depth : IncludedInRole(d) => FromRoleDirectory(d)

\* what does hold: an include at the top level of the role's task file
\* names a file of the task file's directory
C18_TopLevelIncludeInRole ==
    IncludedInRole(3) =>
        /\ stack[2].prefix = "roles/web/tasks"
        /\ FromRoleDirectory(3)

\* C18 case: in the role, `include_tasks: more.yml` inside a block of
\* tasks/main.yml walks the tasks of ./more.yml (a shell task), not
\* those of roles/web/tasks/more.yml (a setup task)
C18_BlockIncludeFromCwd ==
    /\ Depth = 4
    /\ IncludedInRole(4)
    /\ stack[2].prefix = "roles/web/tasks"
    /\ stack[3].via = "block" /\ stack[3].prefix = ""
    /\ IncludedFile(3) = "more.yml"
    /\ stack[4].items = Elems(fs["more.yml"])
    /\ stack[4].items # Elems(fs["roles/web/tasks/more.yml"])
    /\ stack[4].i > Len(stack[4].items)
    /\ KindPayload(stack[4].result) = <<<<"RUN", "date">>>>

(* ------------------------------------------------------------------ *)
(* Flattening a list of tasks                                         *)
(* ------------------------------------------------------------------ *)
\* the elements of the list walked at depth d that it has gone through
Walked(d) ==
    SubSeq(stack[d].items, 1, stack[d].i - 1)

\* a plain task of a module without a rule
Unsupported(task) ==
    /\ ~IsBlock(task) /\ ~IsInclude(task)
    /\ ModuleKey(task) # ""
    /\ ModuleNamed(ModuleKey(task)) \notin TaskMethods

\* C19: the result of a task list is at every point of the walk the
\* concatenation, in document order, of the directive lists of the
\* elements gone through so far, depth first through blocks and
\* includes: it only grows at its end. A task of a module without a
\* rule stands in it with its one ECHO directive at its own position,
\* between the full directives of the elements before and after it.
C19_FlatteningAppendsInOrder ==
    \A d \in 1..Depth :
        stack[d].fn = "AnsibleTasksList.parse" =>
            /\ stack[d].result = Flattened(Walked(d), stack[d].kw, stack[d].prefix)
            /\ \A k \in 1..Len(Walked(d)) :
                  Unsupported(Walked(d)[k].m) =>
                      /\ KindPayload(Flattened(<<Walked(d)[k]>>, stack[d].kw, ""))
                           = <<<<"ECHO", "Conversion of task module '"
                                         \o ModuleNamed(ModuleKey(Walked(d)[k].m))
                                         \o "' is not implemented yet!">>>>
                      /\ stack[d].result
                           = Flattened(SubSeq(Walked(d), 1, k - 1),
                                       stack[d].kw, stack[d].prefix)
                             \o Flattened(<<Walked(d)[k]>>, stack[d].kw, "")
                             \o Flattened(SubSeq(Walked(d), k + 1, Len(Walked(d))),
                                          stack[d].kw, stack[d].prefix)

\* C19 witness: the list of a shell task, a debug task and a dnf task
\* has been walked; its result is the RUN, the ECHO and the DNF
C19_Witness ==
    /\ Depth > 0 /\ Top.fn = "AnsibleTasksList.parse"
    /\ Len(Top.items) = 3 /\ Top.i = 4
    /\ Unsupported(Top.items[2].m)
    /\ KindPayload(Top.result)
         = <<<<"RUN", "ls -l">>,
             <<"ECHO", "Conversion of task module 'debug' is not implemented yet!">>,
             <<"DNF", "vim">>>>

\* C19 witness: the list of a shell task, a block of a debug task and a
\* setup task, an include of more.yml and a dnf task has been walked in
\* a play: RUN, then ECHO and FACTER, then the RUN of more.yml, then DNF
C19_DepthFirst ==
    /\ Depth > 0 /\ Top.fn = "AnsibleTasksList.parse"
    /\ Len(Top.items) = 4 /\ Top.i = 5
    /\ IsBlock(Top.items[2].m) /\ IsInclude(Top.items[3].m)
    /\ Top.prefix = ""
    /\ [i \in 1..Len(Top.result) |-> Top.result[i].map[2][1]]
         = <<"RUN", "ECHO", "FACTER", "RUN", "DNF">>
    /\ Top.result[4].map[2][2].s = "date"

(* ------------------------------------------------------------------ *)
(* A copy with a backup or a validation                               *)
(* ------------------------------------------------------------------ *)
\* the latest task translated is a copy task with a source path, and it
\* was translated
SourceCopyCall ==
    /\ CopyCall /\ call.err = ""
    /\ Has(CopyArgs, "src") /\ Has(CopyArgs, "dest")

\* a backup is requested: the key is there and is not false
BackupRequested(c) ==
    Has(c, "backup") /\ Truthy(Get(c, "backup"))

\* a validation command is requested
ValidationRequested(c) ==
    Has(c, "validate") /\ Truthy(Get(c, "validate"))

\* the directives of the real copy: those of the same task with neither
\* a backup nor a validation
RealCopy ==
    KindPayload(AnsibleTask_parse(
                    Put(call.node, "copy",
                        Dict(PopAll(CopyArgs, <<"backup", "validate">>))),
                    call.kw).jobs)

\* the path of the backup copy
BackupPath ==
    Get(CopyArgs, "dest").s \o ".backup"

\* the directives that stand before the real copy: the copy to the
\* backup path, the validation command on it, and its removal when
\* `removed`
Staging(removed) ==
    IF BackupRequested(CopyArgs) \/ ValidationRequested(CopyArgs)
    THEN <<<<RealCopy[1][1], RealCopy[1][2] \o ".backup">>>>
         \o (IF ValidationRequested(CopyArgs)
             THEN <<<<"RUN", Replace(Get(CopyArgs, "validate").s, "%s", BackupPath)>>>>
             ELSE <<>>)
         \o (IF removed THEN <<<<"RUN", "rm -f " \o BackupPath>>>> ELSE <<>>)
    ELSE <<>>

\* C20: a copy task with a source path gives, when a backup or a
\* validation is requested, the copy of the source to `<dest>.backup`,
\* then, if a validation is requested, the RUN of the validation command
\* with every %s replaced by `<dest>.backup`, then the RUN that removes
\* `<dest>.backup` when a validation is requested and a backup is not
\* (absent or false), then the real copy to `<dest>`; with neither, the
\* real copy alone.
C20_StagedCopyOrder ==
    SourceCopyCall =>
        KindPayload(call.jobs)
          = Staging(ValidationRequested(CopyArgs) /\ ~BackupRequested(CopyArgs))
            \o RealCopy

\* what does hold: the same order, with the backup copy removed only
\* when the task has no backup key at all
C20_RemovedWhenBackupAbsent ==
    SourceCopyCall =>
        KindPayload(call.jobs)
          = Staging(ValidationRequested(CopyArgs) /\ ~Has(CopyArgs, "backup"))
            \o RealCopy

\* C20 case: the copy of a.conf to /etc/a.conf with the validation
\* `visudo -cf %s` and backup: false gives the copy to the backup path,
\* the validation and the real copy; the backup copy is not removed
C20_BackupFalseKeepsCopy ==
    /\ SourceCopyCall
    /\ GetOr(CopyArgs, "validate", None) = Str("visudo -cf %s")
    /\ GetOr(CopyArgs, "backup", None) = Bool(FALSE)
    /\ KindPayload(call.jobs)
         = <<<<"COPY", "a.conf /etc/a.conf.backup">>,
             <<"RUN", "visudo -cf /etc/a.conf.backup">>,
             <<"COPY", "a.conf /etc/a.conf">>>>

\* C20 case: with the backup key absent the backup copy is removed, and
\* both %s of `cmp %s %s` are replaced
C20_BackupAbsentRemoved ==
    /\ SourceCopyCall
    /\ GetOr(CopyArgs, "validate", None) = Str("cmp %s %s")
    /\ ~Has(CopyArgs, "backup")
    /\ KindPayload(call.jobs)
         = <<<<"COPY", "a.conf /etc/a.conf.backup">>,
             <<"RUN", "cmp /etc/a.conf.backup /etc/a.conf.backup">>,
             <<"RUN", "rm -f /etc/a.conf.backup">>,
             <<"COPY", "a.conf /etc/a.conf">>>>

(* ------------------------------------------------------------------ *)
(* The states of a file task                                          *)
(* ------------------------------------------------------------------ *)
\* the latest task translated is a file task with a mapping of
\* arguments that has a path
FileCall ==
    /\ call.made /\ call.module = "file"
    /\ Has(call.node, "file")
    /\ Get(call.node, "file").t = "dict"
    /\ Has(Get(call.node, "file").m, "path")

\* the arguments of the file task, its path and its state
FileArgs ==
    Get(call.node, "file").m

FilePath ==
    Get(FileArgs, "path").s

FileState ==
    GetOr(FileArgs, "state", Str("file")).s

\* the commands of the attributes a file task sets, in the order of the
\* lines: chmod for a mode (for a mode that is not zero, when
\* `nonzero`), chown for an owner or a group, chcon for a type
AttributeCommands(nonzero) ==
    (IF Has(FileArgs, "mode") /\ (~nonzero \/ Get(FileArgs, "mode") # Str("0000"))
     THEN <<"chmod">> ELSE <<>>)
    \o (IF Has(FileArgs, "owner") \/ Has(FileArgs, "group") THEN <<"chown">> ELSE <<>>)
    \o (IF Has(FileArgs, "setype") THEN <<"chcon">> ELSE <<>>)

\* the lines are RUN lines of these commands on the path, in order,
\* each between `before` and `after`
AttributeLines(lines, commands, before, after) ==
    /\ Len(lines) = Len(commands)
    /\ \A i \in 1..Len(lines) :
          /\ lines[i][1] = "RUN"
          /\ StartsWith(lines[i][2], before \o commands[i] \o " ")
          /\ EndsWith(lines[i][2], " " \o FilePath \o after)

\* what a file task gives for its state, with these attribute commands
FileStateDirectives(commands) ==
    CASE FileState = "absent" ->
            /\ call.err = ""
            /\ KindPayload(call.jobs) = <<<<"RUN", "rm -rf " \o FilePath>>>>
      [] FileState = "touch" ->
            /\ call.err = ""
            /\ Len(call.jobs) > 0
            /\ KindPayload(call.jobs)[1] = <<"RUN", "touch " \o FilePath>>
            /\ AttributeLines(Tail(KindPayload(call.jobs)), commands, "", "")
            /\ ~InPayload(call.jobs, "if [ -e")
      [] FileState = "file" ->
            /\ call.err = ""
            /\ ~InPayload(call.jobs, "touch")
            /\ AttributeLines(KindPayload(call.jobs), commands,
                              "if [ -e " \o FilePath \o " ]; then ", "; fi")
      [] FileState = "directory" -> TRUE
      [] OTHER ->
            /\ call.err = "NotImplementedError"
            /\ call.jobs = <<>>
            /\ pc = "raised"

\* C21: a file task of state absent gives exactly one RUN that removes
\* the path; of state touch a RUN that touches the path and then the
\* chmod, chown and chcon RUN lines of the attributes set, unguarded; of
\* state file (the state of a task that names none) no touch, and each
\* of those lines inside `if [ -e <path> ]; then ...; fi`; any state
\* other than directory, absent, touch and file ends with
\* NotImplementedError and gives no directive.
C21_FileStates ==
    FileCall => FileStateDirectives(AttributeCommands(FALSE))

\* what does hold: the same, where a mode of zero gives no chmod line
C21_FileStatesNonZeroMode ==
    FileCall => FileStateDirectives(AttributeCommands(TRUE))

\* C21 case: the touch of /srv/d with the mode "0000" and an owner gives
\* the touch and the chown, and no chmod
C21_TouchModeZero ==
    /\ FileCall
    /\ FileState = "touch"
    /\ GetOr(FileArgs, "mode", None) = Str("0000")
    /\ KindPayload(call.jobs)
         = <<<<"RUN", "touch /srv/d">>, <<"RUN", "chown root /srv/d">>>>

\* C21 case: a task that names no state, with a mode, a group and a
\* type, gives three guarded lines
C21_GuardedLines ==
    /\ FileCall
    /\ ~Has(FileArgs, "state")
    /\ KindPayload(call.jobs)
         = <<<<"RUN", "if [ -e /srv/d ]; then chmod 0755 /srv/d; fi">>,
             <<"RUN", "if [ -e /srv/d ]; then chown :wheel /srv/d; fi">>,
             <<"RUN", "if [ -e /srv/d ]; then chcon -t etc_t /srv/d; fi">>>>

\* C21 case: the state link ends the conversion
C21_StateLinkRefused ==
    /\ FileCall
    /\ FileState = "link"
    /\ call.err = "NotImplementedError" /\ pc = "raised" /\ stdout = <<>>

(* ------------------------------------------------------------------ *)
(* The task lists of a play under pre_tasks and post_tasks            *)
(* ------------------------------------------------------------------ *)
\* the spellings with an underscore
UnderscoreKeys ==
    {"pre_tasks", "post_tasks"}

\* the play has a task list under a spelling with an underscore, and
\* none under a spelling with a hyphen
UnderscorePlay(play) ==
    /\ \E k \in UnderscoreKeys : Has(play, k)
    /\ ~Has(play, "pre-tasks") /\ ~Has(play, "post-tasks")

\* the text is in no payload and in no comment of the jobs
NoTrace(jobs, text) ==
    \A i \in 1..Len(jobs) :
        /\ ~Contains(jobs[i].comment, text)
        /\ \A j \in 1..Len(jobs[i].map) : ~Contains(jobs[i].map[j][2].s, text)

\* C22: the task lists of a play are matched under the spellings
\* pre-tasks, tasks and post-tasks only: at a list under pre_tasks or
\* post_tasks the walk of the play neither goes into the list nor
\* raises, the play's jobs are those before the tasks and those of the
\* list under tasks, and neither the key nor its tasks are in the
\* play's context or anywhere in the jobs.
C22_UnderscoreListsLeaveNoTrace ==
    /\ \A d \in 1..Depth :
          /\ stack[d].fn = "AnsiblePlay.parse"
          /\ stack[d].i <= Len(stack[d].items)
          /\ stack[d].items[stack[d].i] \in UnderscoreKeys
          => d = Depth /\ pc # "raised"
    /\ PlayDone /\ UnderscorePlay(Top.scope.m) =>
          /\ Top.result
               = SubSeq(Top.result, 1, Len(PlayLead(Top.scope.m)))
                 \o (IF Has(Top.scope.m, "tasks")
                     THEN Flattened(Elems(Get(Top.scope.m, "tasks")),
                                    WithScope(NoKw, "play", Top.scope), "")
                     ELSE <<>>)
          /\ KindPayload(SubSeq(Top.result, 1, Len(PlayLead(Top.scope.m))))
               = PlayLead(Top.scope.m)
          /\ \A k \in UnderscoreKeys :
                /\ ~Contains(Get(Top.scope.m, "context").s, k)
                /\ NoTrace(Top.result, k)

\* C22 witness: a play with become, a setup task under pre_tasks, a
\* shell task under tasks and a debug task under post_tasks has gone
\* through its keys: its jobs are the RUN alone, under the play's
\* context, with no FACTER and no ECHO
C22_Witness ==
    /\ PlayDone
    /\ Has(Top.scope.m, "pre_tasks") /\ Has(Top.scope.m, "post_tasks")
    /\ Has(Top.scope.m, "become")
    /\ KindPayload(Top.result) = <<<<"RUN", "ls -l">>>>
    /\ Top.result[1].comment = "\n## PLAYBOOK-CONTEXT:\nbecome: True\n"

\* C22 witness: a play whose only list is under pre_tasks is printed
\* with the jobs that precede the tasks and nothing else
C22_OnlyUnderscoreList ==
    /\ PlaysPrinted
    /\ Has(Elems(fs[argv.file])[1].m, "pre_tasks")
    /\ ~Has(Elems(fs[argv.file])[1].m, "tasks")
    /\ ~Has(Elems(fs[argv.file])[1].m, "environment")
    /\ KindPayload(stdout[Len(stdout)][1].jobs)
         = <<<<"ARG", "port 80">>, <<"ARG", "user www">>, <<"FACTER", "">>>>

(* ------------------------------------------------------------------ *)
(* A command that mentions chdir                                      *)
(* ------------------------------------------------------------------ *)
\* the latest task translated is a shell or command task whose command
\* is a plain string, with no chdir under args
PlainCommandCall ==
    /\ call.made /\ call.module \in {"shell", "command"}
    /\ Has(call.node, call.module)
    /\ Get(call.node, call.module).t = "str"
    /\ ~(Has(call.node, "args") /\ Get(call.node, "args").t = "dict"
         /\ Has(Get(call.node, "args").m, "chdir"))

\* the task gave one RUN whose payload has no `cd` line and ends with
\* the command
RunWithoutCd ==
    /\ call.err = ""
    /\ Len(call.jobs) = 1
    /\ call.jobs[1].map[2][1] = "RUN"
    /\ \A i \in 1..Len(PayloadLines(call.jobs[1])) :
          ~StartsWith(PayloadLines(call.jobs[1])[i], "cd ")
    /\ PayloadLines(call.jobs[1])[Len(PayloadLines(call.jobs[1]))]
         = Get(call.node, call.module).s

\* C23: a shell or command task whose command is a plain string and
\* which has no chdir under args is translated, whatever the text of the
\* command, the word chdir included: it raises nothing and its RUN
\* payload has no `cd` line.
C23_PlainCommandNoCd ==
    PlainCommandCall => RunWithoutCd

\* what does hold: the same for a command whose text has no `chdir` in
\* it
C23_CommandWithoutTheWord ==
    PlainCommandCall /\ ~Contains(Get(call.node, call.module).s, "chdir")
        => RunWithoutCd

\* C23 case: `shell: echo chdir` ended the conversion with TypeError
C23_MentionRaises ==
    /\ PlainCommandCall
    /\ Get(call.node, call.module) = Str("echo chdir")
    /\ ~Has(call.node, "args")
    /\ call.err = "TypeError" /\ call.jobs = <<>>
    /\ pc = "raised" /\ stdout = <<>>

(* ------------------------------------------------------------------ *)
(* The rendering of an owner and a group                              *)
(* ------------------------------------------------------------------ *)
\* the latest task translated is a copy, template or file task with its
\* arguments in a mapping, and it gave directives
OwnedCall ==
    /\ call.made /\ call.module \in {"copy", "template", "file"}
    /\ Has(call.node, call.module)
    /\ Get(call.node, call.module).t = "dict"
    /\ call.err = ""

\* the arguments of that task
OwnedArgs ==
    Get(call.node, call.module).m

\* `owner`, `owner:group` or `:group`
OwnerGroup(args) ==
    (IF Has(args, "owner") THEN Get(args, "owner").s ELSE "")
    \o (IF Has(args, "group") THEN ":" \o Get(args, "group").s ELSE "")

\* every --chown flag and every chown line of the jobs carries the value
RendersOwnership(jobs, value) ==
    \A i \in 1..Len(jobs) :
        LET kind == jobs[i].map[2][1]
            text == jobs[i].map[2][2].s
        IN  /\ (kind \in {"COPY", "WORKDIR"} /\ Contains(text, "--chown "))
                  => Contains(text, "--chown " \o value \o " ")
            /\ (kind = "RUN" /\ Contains(text, "chown "))
                  => \/ Contains(text, "chown " \o value \o " ")
                     \/ Contains(text, "chown -R " \o value \o " ")

\* C24: every --chown flag and every chown RUN line of a copy, template
\* or file task has the form `owner`, `owner:group` or `:group`: a group
\* without an owner is never in the owner position, and every rule renders
\* the same owner and group the same way.
C24_OwnershipForm ==
    OwnedCall => RendersOwnership(call.jobs, OwnerGroup(OwnedArgs))

\* what does hold: the same for a task that has an owner
C24_OwnershipFormWithOwner ==
    OwnedCall /\ Has(OwnedArgs, "owner")
        => RendersOwnership(call.jobs, OwnerGroup(OwnedArgs))

\* C24 case: a recursive directory with a group and no owner has the
\* group in the owner position of its WORKDIR, and `:group` in its RUN
C24_GroupInOwnerPosition ==
    /\ OwnedCall /\ call.module = "file"
    /\ ~Has(OwnedArgs, "owner") /\ Has(OwnedArgs, "group")
    /\ ~Has(OwnedArgs, "mode") /\ ~Has(OwnedArgs, "setype")
    /\ KindPayload(call.jobs)
         = <<<<"WORKDIR", "--chown wheel /srv/d">>,
             <<"RUN", "chown -R :wheel /srv/d">>>>

\* the same in the flag of a copy and of a template, and in the chown
\* line of a copy whose source is on the target (remote_src)
C24_CopyGroupInOwnerPosition ==
    /\ OwnedCall /\ call.module = "copy"
    /\ ~Has(OwnedArgs, "owner") /\ Has(OwnedArgs, "group")
    /\ KindPayload(call.jobs)
         = <<<<"COPY", "--chown wheel a.conf /etc/a.conf">>>>

C24_TemplateGroupInOwnerPosition ==
    /\ OwnedCall /\ call.module = "template"
    /\ ~Has(OwnedArgs, "owner") /\ Has(OwnedArgs, "group")
    /\ KindPayload(call.jobs)
         = <<<<"COPY", "--blueprint --chown wheel a.conf /etc/a.conf">>>>

C24_RemoteGroupInOwnerPosition ==
    /\ OwnedCall /\ call.module = "copy"
    /\ ~Has(OwnedArgs, "owner") /\ Has(OwnedArgs, "group")
    /\ KindPayload(call.jobs)
         = <<<<"RUN", "cp -r a.conf /etc/a.conf">>,
             <<"RUN", "chown -R wheel /etc/a.conf">>>>

\* an owner and a group together are rendered `owner:group` by the flag
\* and by the line
C24_OwnerAndGroup ==
    /\ OwnedCall /\ call.module = "file"
    /\ ~Has(OwnedArgs, "mode") /\ ~Has(OwnedArgs, "setype")
    /\ KindPayload(call.jobs)
         = <<<<"WORKDIR", "--chown root:wheel /srv/d">>,
             <<"RUN", "chown -R root:wheel /srv/d">>>>

(* ------------------------------------------------------------------ *)
(* The rendering of a mode                                            *)
(* ------------------------------------------------------------------ *)
\* the latest task translated is a copy, template or file task that has
\* a mode, a string of octal digits or an integer, and that sets the
\* attributes of its path (a file task of state absent removes it)
ModeCall ==
    /\ OwnedCall
    /\ Has(OwnedArgs, "mode")
    /\ Get(OwnedArgs, "mode").t \in {"str", "int"}
    /\ ~(call.module = "file" /\ GetOr(OwnedArgs, "state", None) = Str("absent"))

\* the numeric value of the mode
ModeValue(mode) ==
    IF mode.t = "str" THEN ParseBase(mode.s, 8, 0) ELSE mode.n

\* `0` followed by the octal digits of the value
OctalText(mode) ==
    "0" \o FormatBase(ModeValue(mode), 8)

\* a --chmod flag or a chmod line with the value is among the jobs
EmitsMode(jobs, value) ==
    \E i \in 1..Len(jobs) :
        LET kind == jobs[i].map[2][1]
            text == jobs[i].map[2][2].s
        IN  \/ kind \in {"COPY", "WORKDIR"}
               /\ Contains(text, "--chmod " \o value \o " ")
            \/ kind = "RUN"
               /\ \/ Contains(text, "chmod " \o value \o " ")
                  \/ Contains(text, "chmod -R " \o value \o " ")

\* no flag and no line of the jobs sets a mode
EmitsNoMode(jobs) ==
    \A i \in 1..Len(jobs) : ~Contains(jobs[i].map[2][2].s, "chmod")

\* C25: a copy, template or file task whose mode is a string of octal
\* digits or an integer emits a chmod flag or a chmod RUN line whose
\* value is `0` followed by the octal digits of the mode, whatever the
\* mode, mode 0 included.
C25_ModeAlwaysEmitted ==
    ModeCall => EmitsMode(call.jobs, OctalText(Get(OwnedArgs, "mode")))

\* what does hold: the same for every mode but 0, and nothing at all
\* for mode 0
C25_NonZeroModeEmitted ==
    ModeCall =>
        IF ModeValue(Get(OwnedArgs, "mode")) # 0
        THEN EmitsMode(call.jobs, OctalText(Get(OwnedArgs, "mode")))
        ELSE EmitsNoMode(call.jobs)

\* C25 case: a copy with mode "0000" and nothing else gives a COPY
\* without a --chmod flag
C25_ModeZeroDropped ==
    /\ ModeCall /\ call.module = "copy"
    /\ Get(OwnedArgs, "mode") = Str("0000")
    /\ ~Has(OwnedArgs, "owner") /\ ~Has(OwnedArgs, "remote_src")
    /\ KindPayload(call.jobs) = <<<<"COPY", "a.conf /etc/a.conf">>>>

\* "0644", "644" and the integer 420 all give 0644
C25_FourDigits ==
    /\ ModeCall /\ call.module = "copy"
    /\ Get(OwnedArgs, "mode") = Str("0644")
    /\ ~Has(OwnedArgs, "owner") /\ ~Has(OwnedArgs, "remote_src")
    /\ KindPayload(call.jobs) = <<<<"COPY", "--chmod 0644 a.conf /etc/a.conf">>>>

C25_ThreeDigits ==
    /\ ModeCall /\ call.module = "template"
    /\ Get(OwnedArgs, "mode") = Str("644")
    /\ Has(OwnedArgs, "owner")
    /\ KindPayload(call.jobs)
         = <<<<"COPY", "--blueprint --chmod 0644 --chown root:wheel a.conf /etc/a.conf">>>>

C25_Integer ==
    /\ ModeCall /\ call.module = "copy"
    /\ Get(OwnedArgs, "mode") = Num(420)
    /\ ~Has(OwnedArgs, "owner") /\ Has(OwnedArgs, "remote_src")
    /\ KindPayload(call.jobs)
         = <<<<"RUN", "cp -r a.conf /etc/a.conf">>,
             <<"RUN", "chmod -R 0644 /etc/a.conf">>>>

====
